---- MODULE Spec2Model ----
(***************************************************************************)
(* State-machine model of the demikernel example applications.             *)
(*                                                                         *)
(* Every binary of the repository is one reactor loop over the libOS:      *)
(* operations are submitted (pushto2 / push2 / pop / accept), their queue  *)
(* tokens are kept in the vector `qtokens`, `wait_any2` returns the index  *)
(* of one completed token together with its OperationResult, the token is  *)
(* swap-removed and the result is dispatched.                              *)
(*                                                                         *)
(* The variable `prog` selects the binary that runs.  Reactor state is     *)
(* indexed by thread: the single-threaded binaries run their Application   *)
(* in slot 0; the multi-threaded ones spawn one Application per worker.    *)
(* Sequences are 1-based here and 0-based in the source.                   *)
(***************************************************************************)
EXTENDS Integers, Sequences, FiniteSets, Bags, TLC

\* ------------------------------------------------------------------ bounds
MaxThreads == 2
MaxFlows == 2
MaxPackets == 3
MaxQTokens == 2
MaxNanos == 3
MaxClock == 12
MaxBufLen == 2
MaxBytes == 3

\* -------------------------------------------------------- program constants
\* Application::LOG_INTERVAL (seconds; the model's clock unit for the servers).
LOG_INTERVAL == 5

Threads == 0 .. (MaxThreads - 1)
QTokens == 1 .. MaxQTokens
BufLens == 1 .. MaxBufLen
\* Ports offered as the configured local port (the base port of the flows).
Ports == {0, 5}
LocalIp == "127.0.0.1"
RemoteAddr == [ip |-> "10.0.0.2", port |-> 9]
NoAddr == [ip |-> "", port |-> 0]

VARIABLES
    prog,           \* the binary that runs
    proc,           \* "running", "exited" (main returned Ok), "failed" (main
                    \* returned Err) or "aborted" (main panicked)
    args,           \* ProgramArguments after parsing
    now,            \* the monotonic clock read by Instant::now()
    pc,             \* pc[t]: position of thread t's Application
    qtokens,        \* qtokens[t]: the vector of outstanding queue tokens
    ops,            \* ops[t]: operations outstanding in thread t's LibOS
    bound,          \* bound[t]: binds performed by thread t's LibOS, in order
    nqd,            \* nqd[t]: queue descriptors handed out by thread t's LibOS
    result,         \* result[t]: the OperationResult of the latest wait
    sockets,        \* udp-latency: Application.sockets
    idx,            \* udp-latency: index of the flow in use (0-based)
    last_push,      \* udp-latency: Instant of the latest pushto2
    latencies,      \* udp-latency: the samples
    npackets,       \* udp-latency: the sample counter
    histogram,      \* udp-latency: the Histogram, a bag of values
    file_exists,    \* udp-latency: latency.txt has been created
    file_lines,     \* udp-latency: the lines of latency.txt
    summary,        \* udp-latency: the summary has been printed
    nsubmitted,     \* history: operations submitted by the latency harness
    nconsumed,      \* history: tokens removed from qtokens by the latency harness
    nstats,         \* history: entries into the statistics step
    nsends,         \* history: sends (pushto2) submitted by the latency harness
    since_push,     \* history: completion kinds consumed since the latest send
    gap,            \* history: completion kinds consumed between the latest two sends
    sent_at,        \* history: the clock at the latest send submission
    sent_qd,        \* history: the queue descriptor of the latest send
    max_pending,    \* history: the largest length qtokens has had
    main_pc,        \* multi-threaded binaries: position of main ("spawn", "join")
    nspawned,       \* multi-threaded binaries: worker threads spawned so far
    sockqd,         \* servers: sockqd[t], Application.sockqd
    start_at,       \* servers: start_at[t], `start`, the Instant at the entry of run
    last_log,       \* servers: last_log[t], Instant of the latest report
    nbytes,         \* servers: nbytes[t], the byte counter
    report,         \* servers: report[t], the latest line the reporter printed
    store,          \* kv-store: KVStore.store, the outer table
    kvret,          \* kv-store: the latest call on the KVStore and what it returned
    inserted        \* history: per key, the value of its latest insert, "removed"
                    \* after a remove, "never" before any insert

vars == <<prog, proc, args, now, pc, qtokens, ops, bound, nqd, result,
          sockets, idx, last_push, latencies, npackets, histogram,
          file_exists, file_lines, summary, nsubmitted, nconsumed, nstats,
          nsends, since_push, gap, sent_at, sent_qd, max_pending,
          main_pc, nspawned, sockqd, start_at, last_log, nbytes, report,
          store, kvret, inserted>>

\* The KVStore, which no reactor touches.
kv_vars == <<store, kvret, inserted>>

server_vars == <<main_pc, nspawned, sockqd, start_at, last_log, nbytes, report, kv_vars>>

hist_vars == <<nsubmitted, nconsumed, nstats, nsends, since_push, gap, sent_at,
               sent_qd, max_pending>>

out_vars == <<histogram, file_exists, file_lines, summary>>

latency_vars == <<sockets, idx, last_push, latencies, npackets, out_vars, hist_vars,
                  kv_vars>>

\* ----------------------------------------------------------------- helpers
\* The same update written as if the threads shared the field.
Upd_shared(f, t, v) == [u \in DOMAIN f |-> v]

Upd(f, t, v) == [f EXCEPT ![t] = v]

NoReport == [bytes |-> -1, elapsed |-> -1]
\* (qd, OperationResult) as wait_any2 returns them (`via` tells the blocking
\* wait of the reflectors apart); `addr` and `len` are the Option<address>
\* and the buffer length of Pop.
NoResult == [kind |-> "None", addr |-> "none", len |-> 0, qd |-> 0, via |-> "none"]
Res(kind, qd) == [kind |-> kind, addr |-> "none", len |-> 0, qd |-> qd, via |-> "wait_any2"]
PopRes(addr, len, qd) ==
    [kind |-> "Pop", addr |-> addr, len |-> len, qd |-> qd, via |-> "wait_any2"]
SyncRes(kind, qd) == [kind |-> kind, addr |-> "none", len |-> 0, qd |-> qd, via |-> "wait"]

Max(a, b) == IF a >= b THEN a ELSE b

\* The binaries that run one Application per spawned worker thread.
MTProgs == {"udp-echo2", "udp-reflector", "udp-reflector2"}

\* Scope of the exploration: runs with a single reactor range over every
\* token value, buffer length and clock value within the bounds; runs with
\* two or more workers explore the interleavings of the workers with one
\* token value, one buffer length and the clock at rest.
Wide == ~(prog \in MTProgs /\ args.cores > 1)

Lens == IF Wide THEN BufLens ELSE {1}

\* ------------------------------------------------------------------- libOS
\* The queue tokens thread t's LibOS may hand out: any value not outstanding.
FreeTokens(o) == (IF Wide THEN QTokens ELSE {1}) \ {e.qt : e \in o}

\* libos.pushto2 / push2 / pop / accept returning Ok(qt): `len` is the length
\* of the buffer pushed and `dest` the address it is pushed to (0 and "none"
\* for pop and accept, "conn" for push2 on a connection).
Submit(o, qt, op, qd, len, dest) ==
    o \cup {[qt |-> qt, op |-> op, qd |-> qd, len |-> len, dest |-> dest]}

\* The completion kind the LibOS produces for a successful operation.
Expected(op) ==
    CASE op = "push" -> "Push"
      [] op = "pop" -> "Pop"
      [] op = "accept" -> "Accept"
      [] OTHER -> "Connect"

\* wait_any2(&qtokens) returning Ok: an index into qtokens whose operation is
\* the one that completed (the LibOS chooses among the outstanding ones).
Completable(qts, o) ==
    {r \in [i : 1 .. Len(qts), e : o] : qts[r.i] = r.e.qt}

\* Vec::swap_remove(i): the last element takes the place of the removed one.
swap_remove_keep(v, i) == v

swap_remove(v, i) ==
    IF i = Len(v)
    THEN SubSeq(v, 1, Len(v) - 1)
    ELSE SubSeq([v EXCEPT ![i] = v[Len(v)]], 1, Len(v) - 1)

\* The same panic written as if it only unwound the reactor and left the
\* process alive.
PanicMain_unwind ==
    /\ pc' = Upd(pc, 0, "panicked")
    /\ proc' = proc

\* A panic of the main thread ends the process.
PanicMain ==
    /\ pc' = Upd(pc, 0, "panicked")
    /\ proc' = "aborted"

\* panic!: in a spawned worker only that thread unwinds; in the binaries that
\* run the Application on the main thread the process ends.
Panic(t) ==
    IF prog \in MTProgs
    THEN pc' = Upd(pc, t, "panicked") /\ proc' = proc
    ELSE PanicMain

\* wait_any2 returned completion r: the token is swap-removed, the operation
\* is no longer outstanding, and the arm taken panics.
Fatal(t, r, kind) ==
    /\ now' = now
    /\ result' = Upd(result, t, Res(kind, r.e.qd))
    /\ ops' = Upd(ops, t, ops[t] \ {r.e})
    /\ qtokens' = Upd(qtokens, t, swap_remove(qtokens[t], r.i))
    /\ Panic(t)

\* wait_any2 itself returned Err: nothing is removed, the thread panics.
WaitFailed(t) ==
    /\ result' = Upd(result, t, Res("Err", 0))
    /\ Panic(t)
    /\ UNCHANGED <<now, ops, qtokens>>

\* Completion kinds of operations the UDP binaries never submit.
Spurious == {"Accept", "Connect"}

\* The kinds of OperationResult the binaries match on.
Kinds == {"Push", "Pop", "Accept", "Connect", "Failed"}

\* The arms of `match self.libos.wait2(qt)` in tcp-dump (lines 167-173),
\* udp-pktgen (lines 296-300) and the client of tcp-echo (lines 385-389 and
\* 397-403): Ok with the awaited result goes on ("none"), Err(e) panics with
\* "operation failed: {e.cause}", and `_` panics with "unexpected result".
\* There is no arm for OperationResult::Failed, so it is matched by `_`.
wait2_arm(want, k) ==
    IF k = want THEN "none"
    ELSE IF k = "Err" THEN "operation failed"
    ELSE "unexpected result"

\* The results a wait_any2 reactor has an arm for, besides Failed.
Handled(p) ==
    CASE p \in {"tcp-echo", "kv-store"} -> {"Accept", "Pop", "Push"}
      [] p \in {"udp-reflector", "udp-reflector2"} -> {"Pop"}
      [] OTHER -> {"Pop", "Push"}

\* The arms of the match on the result of wait_any2 (tcp-echo.rs 325-362 and
\* the same shape in the other reactors): Err(e) and Failed(e) panic with
\* "operation failed: {e}", `_` panics with "unexpected result".  The Pop arm
\* of udp-relay matches Pop(None, buf) only.
wait_any2_arm(p, r) ==
    IF r.kind \in {"Err", "Failed"} THEN "operation failed"
    ELSE IF r.kind \notin Handled(p) THEN "unexpected result"
    ELSE IF p = "udp-relay" /\ r.kind = "Pop" /\ r.addr # "none" THEN "unexpected result"
    ELSE "none"

\* The message of the arm that program p takes on result r ("none" when the
\* arm does not panic).  libos.wait of the reflectors has the arms Ok(_) and
\* Err(e) only.
ArmMessage(p, r) ==
    IF r.via = "wait"
    THEN CASE p = "tcp-dump" -> wait2_arm("Pop", r.kind)
           [] p = "udp-pktgen" -> wait2_arm("Push", r.kind)
           [] OTHER -> IF r.kind = "Err" THEN "operation failed" ELSE "none"
    ELSE wait_any2_arm(p, r)

\* ------------------------------------------------------------- udp-latency
R == 0

\* ProgramArguments::get_first_port
get_first_port(a) == a.local.port

\* ProgramArguments::get_packets, lines 168-171: self.packets * 10000 (the
\* product stays far below 2^64 for the values explored).  The runs explored
\* below count their samples up to args.packets itself: a run of 10000
\* samples or more is beyond exhaustive exploration, and the steps of the
\* loop do not depend on how far the target is.
get_packets(a) == a.packets * 10000

\* ProgramArguments::set_bufsize, set_flows, set_packets accept the value.
set_bufsize_any(n) == TRUE

set_bufsize(n) == n > 0

set_flows(n) == n > 0

set_packets(n) == n > 0

\* main, lines 375-381: ProgramArguments::new parses the command line; on
\* Err main returns it at the `?`, otherwise LibOS::new(0, 1) is called and
\* Application::new is entered.
LatParse ==
    /\ prog = "udp-latency" /\ proc = "running" /\ pc[R] = "parse"
    /\ IF set_bufsize(args.bufsize) /\ set_flows(args.flows) /\ set_packets(args.packets)
       THEN pc' = Upd(pc, R, "new") /\ proc' = proc
       ELSE pc' = Upd(pc, R, "rejected") /\ proc' = "failed"
    /\ UNCHANGED <<server_vars, prog, args, now, qtokens, ops, bound, nqd, result,
                   latency_vars>>

\* Application::new, line 256: the local address flow i (0-based) is bound to.
FlowAddr_same(a, i) == [ip |-> a.local.ip, port |-> 0]

FlowAddr(a, i) == [ip |-> a.local.ip, port |-> i]

\* Application::new, one iteration of `for i in 0..flows`: socket, bind, push.
NewFlow ==
    /\ prog = "udp-latency" /\ proc = "running" /\ pc[R] = "new"
    /\ Len(sockets) < args.flows
    /\ LET i == Len(sockets)
           qd == nqd[R] + 1
       IN  \/ \* libos.socket fails
              /\ PanicMain
              /\ UNCHANGED <<sockets, bound, nqd>>
           \/ \* libos.bind fails
              /\ PanicMain
              /\ nqd' = Upd(nqd, R, qd)
              /\ UNCHANGED <<sockets, bound>>
           \/ /\ nqd' = Upd(nqd, R, qd)
              /\ bound' = Upd(bound, R, Append(bound[R], [qd |-> qd, addr |-> FlowAddr(args, i)]))
              /\ sockets' = Append(sockets, qd)
              /\ pc' = Upd(pc, R, IF i + 1 = args.flows THEN "run" ELSE "new")
              /\ proc' = proc
    /\ UNCHANGED <<server_vars, prog, args, now, qtokens, ops, result, idx, last_push,
                   latencies, npackets, out_vars, hist_vars>>

\* The same draw written as if it always gave the first flow.
FlowChoices_first(s) == {0}

\* rand::thread_rng().gen_range(0, sockets.len()): the flows a send may use.
FlowChoices(s) == 0 .. (Len(s) - 1)

\* History of a handler that consumed a completion of `kind` and then
\* submitted operation `op` on queue descriptor qd.
Submitted(kind, op, qd) ==
    /\ nsubmitted' = nsubmitted + 1
    /\ max_pending' = Max(max_pending, Len(qtokens'[R]))
    /\ IF op = "push"
       THEN /\ nsends' = nsends + 1
            /\ gap' = since_push \o kind
            /\ since_push' = <<>>
            /\ sent_at' = now'
            /\ sent_qd' = qd
       ELSE /\ since_push' = since_push \o kind
            /\ UNCHANGED <<nsends, gap, sent_at, sent_qd>>

\* History of a handler that consumed a completion of `kind` and panicked.
NotSubmitted(kind) ==
    /\ since_push' = since_push \o kind
    /\ UNCHANGED <<nsubmitted, nsends, gap, sent_at, sent_qd, max_pending>>

\* Application::run, lines 281-295: the first packet is pushed.
RunStart ==
    /\ prog = "udp-latency" /\ proc = "running" /\ pc[R] = "run"
    /\ now' = now
    /\ \E k \in FlowChoices(sockets) :
          /\ idx' = k
          /\ \/ \* pushto2 fails
                /\ PanicMain
                /\ NotSubmitted(<<>>)
                /\ UNCHANGED <<qtokens, ops, last_push>>
             \/ \E qt \in FreeTokens(ops[R]) :
                   /\ ops' = Upd(ops, R, Submit(ops[R], qt, "push", sockets[k + 1], args.bufsize, "remote"))
                   /\ last_push' = now
                   /\ qtokens' = Upd(qtokens, R, Append(qtokens[R], qt))
                   /\ Submitted(<<>>, "push", sockets[k + 1])
                   /\ pc' = Upd(pc, R, "loop")
                   /\ proc' = proc
    /\ UNCHANGED <<server_vars, prog, args, bound, nqd, result, sockets, latencies,
                   npackets, out_vars, nconsumed, nstats>>

\* Application::run, line 298: the loop's exit test.
TargetReached_early(n, target) == n + 1 >= target

TargetReached(n, target) == n = target

\* writeln!(&mut file, "{}", i): the decimal digits of a sample.
RECURSIVE Decimal(_)
Decimal(n) == IF n < 10 THEN <<n>> ELSE Append(Decimal(n \div 10), n % 10)

\* histogram.increment(i) for the first k samples.
RECURSIVE Increments(_, _)
Increments(l, k) ==
    IF k = 0 THEN EmptyBag ELSE Increments(l, k - 1) (+) SetToBag({l[k]})

\* The lines written for the first k samples.
Lines(l, k) == [j \in 1 .. k |-> Decimal(l[j])]

\* The thread is about to call wait_any2: the latency harness at the top of
\* its loop with the target not reached, the servers after their log check,
\* the kv-store server at the top of its loop.
AtWait(t) ==
    /\ proc = "running"
    /\ \/ pc[t] = "wait"
       \/ /\ prog = "udp-latency" /\ pc[t] = "loop"
          /\ ~TargetReached(npackets, args.packets)
       \/ prog = "kv-store" /\ pc[t] = "loop"

\* Application::run, lines 333 and 345: the operation submitted by the arm
\* of a completion kind.
NextOp_open(kind) == "push"

NextOp(kind) == IF kind = "Push" THEN "pop" ELSE "push"

\* Application::run, line 333: the flow the receive is submitted on.
PopFlow_first(k) == 0

PopFlow(k) == k

\* Application::run, lines 323-338: a push completed, the reply is awaited.
LatOnPush ==
    /\ prog = "udp-latency" /\ AtWait(R)
    /\ now' = now
    /\ \E r \in Completable(qtokens[R], ops[R]) :
          /\ r.e.op = "push"
          /\ result' = Upd(result, R, Res("Push", r.e.qd))
          /\ nconsumed' = nconsumed + 1
          /\ LET o1 == ops[R] \ {r.e}
                 q1 == swap_remove(qtokens[R], r.i)
                 qd == sockets[PopFlow(idx) + 1]
             IN  \/ \* pop fails
                    /\ PanicMain
                    /\ ops' = Upd(ops, R, o1)
                    /\ qtokens' = Upd(qtokens, R, q1)
                    /\ NotSubmitted(<<"Push">>)
                 \/ \E qt \in FreeTokens(o1) :
                       /\ ops' = Upd(ops, R, Submit(o1, qt, NextOp("Push"), qd, 0, "none"))
                       /\ qtokens' = Upd(qtokens, R, Append(q1, qt))
                       /\ Submitted(<<"Push">>, NextOp("Push"), qd)
                       /\ UNCHANGED <<pc, proc>>
    /\ UNCHANGED <<server_vars, prog, args, bound, nqd, sockets, idx, last_push,
                   latencies, npackets, out_vars, nstats>>

\* The same difference written with its operands swapped.
Roundtrip_reversed(st, lp) == lp - st

\* Application::run, lines 340-342: the sample appended on a pop completion.
Roundtrip(st, lp) == st - lp

\* Application::run, lines 323-327 and 339-352: a pop completed; the sample
\* is taken and the next packet is pushed on a flow drawn at random.  No time
\* passes between the two readings of the clock.
LatOnPop ==
    /\ prog = "udp-latency" /\ AtWait(R)
    /\ now' = now
    /\ \E r \in Completable(qtokens[R], ops[R]), k \in FlowChoices(sockets),
          len \in Lens :
          /\ r.e.op = "pop"
          /\ result' = Upd(result, R, PopRes("peer", len, r.e.qd))
          /\ nconsumed' = nconsumed + 1
          /\ LET o1 == ops[R] \ {r.e}
                 q1 == swap_remove(qtokens[R], r.i)
             IN  /\ latencies' = Append(latencies, Roundtrip(now, last_push))
                 /\ idx' = k
                 /\ \/ \* pushto2 fails
                       /\ PanicMain
                       /\ ops' = Upd(ops, R, o1)
                       /\ qtokens' = Upd(qtokens, R, q1)
                       /\ NotSubmitted(<<"Pop">>)
                       /\ UNCHANGED <<last_push, npackets>>
                    \/ \E qt \in FreeTokens(o1) :
                          /\ ops' = Upd(ops, R, Submit(o1, qt, NextOp("Pop"), sockets[k + 1], len, "remote"))
                          /\ qtokens' = Upd(qtokens, R, Append(q1, qt))
                          /\ last_push' = now
                          /\ npackets' = npackets + 1
                          /\ Submitted(<<"Pop">>, NextOp("Pop"), sockets[k + 1])
                          /\ UNCHANGED <<pc, proc>>
    /\ UNCHANGED <<server_vars, prog, args, bound, nqd, sockets, out_vars, nstats>>

\* The Histogram of the `histogram` crate, which the statistics block calls
\* (lines 299-318): percentile(p), p in thousandths, is the smallest recorded
\* value with at least ceil(n * p / 1000) (and at least one) of the n entries
\* at or below it; the values of the model are small enough to have a bucket
\* each.
AtOrBelow(h, v) == BagCardinality([x \in {y \in BagToSet(h) : y <= v} |-> h[x]])

Need(h, p) == Max(1, (BagCardinality(h) * p + 999) \div 1000)

percentile(h, p) ==
    CHOOSE v \in BagToSet(h) :
        /\ AtOrBelow(h, v) >= Need(h, p)
        /\ \A w \in BagToSet(h) : AtOrBelow(h, w) >= Need(h, p) => v <= w

minimum(h) == percentile(h, 0)

maximum(h) == percentile(h, 1000)

\* Application::run, lines 298-321: the statistics step, then run and main return.
LatStats ==
    /\ prog = "udp-latency" /\ proc = "running" /\ pc[R] = "loop"
    /\ TargetReached(npackets, args.packets)
    /\ nstats' = nstats + 1
    /\ \/ \* File::create fails
          /\ PanicMain
          /\ UNCHANGED <<histogram, file_exists, file_lines, summary>>
       \/ \* writeln! fails on line k + 1, after the increment of that sample
          \E k \in 0 .. (Len(latencies) - 1) :
             /\ PanicMain
             /\ histogram' = Increments(latencies, k + 1)
             /\ file_exists' = TRUE
             /\ file_lines' = Lines(latencies, k)
             /\ summary' = summary
       \/ /\ histogram' = Increments(latencies, Len(latencies))
          /\ file_exists' = TRUE
          /\ file_lines' = Lines(latencies, Len(latencies))
          /\ summary' = TRUE
          /\ pc' = Upd(pc, R, "done")
          /\ proc' = "exited"
    /\ UNCHANGED <<server_vars, prog, args, now, qtokens, ops, bound, nqd, result, sockets,
                   idx, last_push, latencies, npackets, nsubmitted, nconsumed,
                   nsends, since_push, gap, sent_at, sent_qd, max_pending>>

\* Application::run, lines 323-326: wait_any2 returns Err.
LatWaitErr ==
    /\ prog = "udp-latency" /\ AtWait(R)
    /\ WaitFailed(R)
    /\ UNCHANGED <<server_vars, prog, args, bound, nqd, latency_vars>>

\* The same arm written as if the flow of the failed operation were closed
\* and taken out of the pool before the panic.
LatOnFailed_closes ==
    /\ prog = "udp-latency" /\ AtWait(R)
    /\ \E r \in Completable(qtokens[R], ops[R]) :
          /\ Fatal(R, r, "Failed")
          /\ sockets' = SelectSeq(sockets, LAMBDA qd : qd # r.e.qd)
    /\ nconsumed' = nconsumed + 1
    /\ NotSubmitted(<<"Failed">>)
    /\ UNCHANGED <<server_vars, prog, args, bound, nqd, idx, last_push,
                   latencies, npackets, out_vars, nstats>>

\* Application::run, line 353: the operation failed.
LatOnFailed ==
    /\ prog = "udp-latency" /\ AtWait(R)
    /\ \E r \in Completable(qtokens[R], ops[R]) : Fatal(R, r, "Failed")
    /\ nconsumed' = nconsumed + 1
    /\ NotSubmitted(<<"Failed">>)
    /\ UNCHANGED <<server_vars, prog, args, bound, nqd, sockets, idx, last_push,
                   latencies, npackets, out_vars, nstats>>

\* The same arm written as if it skipped the completion and waited again.
LatOnUnexpected_skip ==
    /\ prog = "udp-latency" /\ AtWait(R)
    /\ \E r \in Completable(qtokens[R], ops[R]), k \in Spurious :
          /\ result' = Upd(result, R, Res(k, r.e.qd))
          /\ ops' = Upd(ops, R, ops[R] \ {r.e})
          /\ qtokens' = Upd(qtokens, R, swap_remove(qtokens[R], r.i))
    /\ nconsumed' = nconsumed + 1
    /\ NotSubmitted(<<"Other">>)
    /\ UNCHANGED <<server_vars, prog, proc, pc, now, args, bound, nqd, sockets, idx,
                   last_push, latencies, npackets, out_vars, nstats>>

\* Application::run, line 354: any other completion kind.
LatOnUnexpected ==
    /\ prog = "udp-latency" /\ AtWait(R)
    /\ \E r \in Completable(qtokens[R], ops[R]), k \in Spurious : Fatal(R, r, k)
    /\ nconsumed' = nconsumed + 1
    /\ NotSubmitted(<<"Other">>)
    /\ UNCHANGED <<server_vars, prog, args, bound, nqd, sockets, idx, last_push,
                   latencies, npackets, out_vars, nstats>>

\* Time passes while a thread is blocked in a wait, and between the
\* iterations of the loop of udp-pktgen, which spins; every other call returns
\* at once.  The clock counts nanoseconds for the latency harness and seconds
\* for the servers, and is capped.
ClockCap ==
    IF prog = "udp-latency" THEN MaxNanos ELSE IF Wide THEN MaxClock ELSE 0

Tick ==
    /\ proc = "running"
    /\ \E t \in Threads :
          \/ AtWait(t)
          \/ pc[t] \in {"wait_push", "wait_pop"}
          \/ prog = "udp-pktgen" /\ pc[t] = "loop"
    /\ now < ClockCap
    /\ now' = now + 1
    /\ UNCHANGED <<prog, proc, args, pc, qtokens, ops, bound, nqd, result, latency_vars,
                   server_vars>>

NextLatency ==
    \/ LatParse
    \/ NewFlow
    \/ RunStart
    \/ LatOnPush
    \/ LatOnPop
    \/ LatWaitErr
    \/ LatOnFailed
    \/ LatOnUnexpected
    \/ LatStats

\* ----------------------------------------------------------------- servers
\* What the handlers of the servers leave alone besides nqd and nbytes.
Rest == <<prog, args, bound, latency_vars, main_pc, nspawned, sockqd, start_at,
          last_log, report>>

\* The same handler written as if the arm forgot qtokens.push(qt).
Handle_forget(t, r, res, op, qd, len, dest) ==
    /\ now' = now
    /\ result' = Upd(result, t, res)
    /\ \E qt \in FreeTokens(ops[t] \ {r.e}) :
          /\ ops' = Upd(ops, t, Submit(ops[t] \ {r.e}, qt, op, qd, len, dest))
          /\ qtokens' = Upd(qtokens, t, swap_remove(qtokens[t], r.i))
          /\ pc' = Upd(pc, t, "loop")
          /\ proc' = proc

\* wait_any2 returned completion r with result res and the arm submits
\* operation op on qd: the token is swap-removed, then either the submission
\* fails and the arm panics, or the new token is pushed on qtokens.
Handle(t, r, res, op, qd, len, dest) ==
    /\ now' = now
    /\ result' = Upd(result, t, res)
    /\ \/ /\ Panic(t)
          /\ ops' = Upd(ops, t, ops[t] \ {r.e})
          /\ qtokens' = Upd(qtokens, t, swap_remove(qtokens[t], r.i))
       \/ \E qt \in FreeTokens(ops[t] \ {r.e}) :
             /\ ops' = Upd(ops, t, Submit(ops[t] \ {r.e}, qt, op, qd, len, dest))
             /\ qtokens' = Upd(qtokens, t, Append(swap_remove(qtokens[t], r.i), qt))
             /\ pc' = Upd(pc, t, "loop")
             /\ proc' = proc

\* The same statement written as if it counted buffers.
CountBytes_one(n, len) == n + 1

\* nbytes += buf.len() in the Pop arm (tcp-echo.rs line 344, udp-echo2.rs
\* line 187, udp-relay.rs line 226, tcp-dump.rs line 169).
CountBytes(n, len) == n + len

\* last_log.elapsed() > Duration::from_secs(Self::LOG_INTERVAL)
IntervalElapsed_always(since) == TRUE

IntervalElapsed(since) == now - since > LOG_INTERVAL

\* The reporter at the top of the loop: a line is printed when more than
\* LOG_INTERVAL has elapsed since the latest one; the loop body follows.
LogCheckTo(t, next) ==
    /\ proc = "running" /\ pc[t] = "loop"
    /\ IF IntervalElapsed(last_log[t])
       THEN /\ report' = Upd(report, t, [bytes |-> nbytes[t], elapsed |-> now - start_at[t]])
            /\ last_log' = Upd(last_log, t, now)
       ELSE UNCHANGED <<report, last_log>>
    /\ pc' = Upd(pc, t, next)
    /\ UNCHANGED <<prog, proc, args, now, qtokens, ops, bound, nqd, result, latency_vars,
                   main_pc, nspawned, sockqd, start_at, nbytes>>

\* The reporter of the reactors whose loop body is wait_any2.
LogCheck(t) == LogCheckTo(t, "wait")

\* Application::new of the UDP servers: socket, then bind to the local address.
UdpNew(t) ==
    /\ proc = "running" /\ pc[t] = "new"
    /\ LET qd == nqd[t] + 1
       IN  \/ \* libos.socket fails
              /\ Panic(t)
              /\ UNCHANGED <<nqd, bound, sockqd>>
           \/ \* libos.bind fails
              /\ Panic(t)
              /\ nqd' = Upd(nqd, t, qd)
              /\ UNCHANGED <<bound, sockqd>>
           \/ /\ nqd' = Upd(nqd, t, qd)
              /\ bound' = Upd(bound, t, Append(bound[t], [qd |-> qd, addr |-> args.local]))
              /\ sockqd' = Upd(sockqd, t, qd)
              /\ pc' = Upd(pc, t, "run")
              /\ proc' = proc
    /\ UNCHANGED <<prog, args, now, qtokens, ops, result, latency_vars, main_pc, nspawned,
                   start_at, last_log, nbytes, report>>

\* The entry of run of a server: the clocks are read and the first operation
\* (accept for tcp-echo, pop for the UDP servers) is submitted.
FirstOp(t, op) ==
    /\ proc = "running" /\ pc[t] = "run"
    /\ start_at' = Upd(start_at, t, now)
    /\ last_log' = Upd(last_log, t, now)
    /\ \/ /\ Panic(t)
          /\ UNCHANGED <<ops, qtokens>>
       \/ \E qt \in FreeTokens(ops[t]) :
             /\ ops' = Upd(ops, t, Submit(ops[t], qt, op, sockqd[t], 0, "none"))
             /\ qtokens' = Upd(qtokens, t, Append(qtokens[t], qt))
             /\ pc' = Upd(pc, t, "loop")
             /\ proc' = proc
    /\ UNCHANGED <<prog, args, now, bound, nqd, result, latency_vars, main_pc, nspawned,
                   sockqd, nbytes, report>>

\* ---------------------------------------------------------------- tcp-echo
\* Application::new_server: socket, bind, listen.
ListenNew ==
    /\ proc = "running" /\ pc[R] = "new"
    /\ LET qd == nqd[R] + 1
       IN  \/ \* libos.socket fails
              /\ PanicMain
              /\ UNCHANGED <<nqd, bound, sockqd>>
           \/ \* libos.bind fails
              /\ PanicMain
              /\ nqd' = Upd(nqd, R, qd)
              /\ UNCHANGED <<bound, sockqd>>
           \/ \* libos.listen fails
              /\ PanicMain
              /\ nqd' = Upd(nqd, R, qd)
              /\ bound' = Upd(bound, R, Append(bound[R], [qd |-> qd, addr |-> args.local]))
              /\ UNCHANGED sockqd
           \/ /\ nqd' = Upd(nqd, R, qd)
              /\ bound' = Upd(bound, R, Append(bound[R], [qd |-> qd, addr |-> args.local]))
              /\ sockqd' = Upd(sockqd, R, qd)
              /\ pc' = Upd(pc, R, "run")
              /\ proc' = proc
    /\ UNCHANGED <<prog, args, now, qtokens, ops, result, latency_vars, main_pc, nspawned,
                   start_at, last_log, nbytes, report>>

TcpNew == prog = "tcp-echo" /\ ListenNew

\* Application::run_server, lines 305-315: the first accept.
TcpRun == prog = "tcp-echo" /\ FirstOp(R, "accept")

\* Application::run_server, lines 318-323.
TcpLog == prog = "tcp-echo" /\ LogCheck(R)

\* The same arm written as if it accepted the next connection on the
\* listening socket instead of reading from the accepted one.
TcpOnAccept_again ==
    /\ prog = "tcp-echo" /\ AtWait(R)
    /\ \E r \in Completable(qtokens[R], ops[R]) :
          /\ r.e.op = "accept"
          /\ nqd' = Upd(nqd, R, nqd[R] + 1)
          /\ Handle(R, r, Res("Accept", r.e.qd), "accept", sockqd[R], 0, "none")
    /\ UNCHANGED <<Rest, nbytes>>

\* Application::run_server, lines 333-341: the connection is accepted on a
\* new queue descriptor and the first pop is submitted on it.
TcpOnAccept ==
    /\ prog = "tcp-echo" /\ AtWait(R)
    /\ \E r \in Completable(qtokens[R], ops[R]) :
          /\ r.e.op = "accept"
          /\ nqd' = Upd(nqd, R, nqd[R] + 1)
          /\ Handle(R, r, Res("Accept", r.e.qd), "pop", nqd[R] + 1, 0, "none")
    /\ UNCHANGED <<Rest, nbytes>>

\* The same descriptor written as if the arms used the listening socket.
ConnOf_listener(r) == sockqd[R]

\* Application::run_server, line 325: the queue descriptor wait_any2 returns
\* with a completion, which the Pop and Push arms submit on.
ConnOf(r) == r.e.qd

\* Application::run_server, lines 343-350: the buffer is pushed back on the
\* queue descriptor wait_any2 returned.
TcpOnPop ==
    /\ prog = "tcp-echo" /\ AtWait(R)
    /\ \E r \in Completable(qtokens[R], ops[R]), len \in Lens :
          /\ r.e.op = "pop"
          /\ nbytes[R] + len <= MaxBytes
          /\ nbytes' = Upd(nbytes, R, CountBytes(nbytes[R], len))
          /\ Handle(R, r, PopRes("none", len, r.e.qd), "push", ConnOf(r), len, "conn")
    /\ UNCHANGED <<Rest, nqd>>

\* Application::run_server, lines 352-359: the next pop on the connection.
TcpOnPush ==
    /\ prog = "tcp-echo" /\ AtWait(R)
    /\ \E r \in Completable(qtokens[R], ops[R]) :
          /\ r.e.op = "push"
          /\ Handle(R, r, Res("Push", r.e.qd), "pop", ConnOf(r), 0, "none")
    /\ UNCHANGED <<Rest, nqd, nbytes>>

\* Application::run_server, line 360.
TcpOnFailed ==
    /\ prog = "tcp-echo" /\ AtWait(R)
    /\ \E r \in Completable(qtokens[R], ops[R]) : Fatal(R, r, "Failed")
    /\ UNCHANGED <<Rest, nqd, nbytes>>

\* Application::run_server, line 361: the `_` arm (Connect).
TcpOnUnexpected ==
    /\ prog = "tcp-echo" /\ AtWait(R)
    /\ \E r \in Completable(qtokens[R], ops[R]) : Fatal(R, r, "Connect")
    /\ UNCHANGED <<Rest, nqd, nbytes>>

\* Application::run_server, lines 325-328: wait_any2 returns Err.
TcpWaitErr ==
    /\ prog = "tcp-echo" /\ AtWait(R)
    /\ WaitFailed(R)
    /\ UNCHANGED <<Rest, nqd, nbytes>>

NextTcpEcho ==
    \/ TcpNew
    \/ TcpRun
    \/ TcpLog
    \/ TcpOnAccept
    \/ TcpOnPop
    \/ TcpOnPush
    \/ TcpOnFailed
    \/ TcpOnUnexpected
    \/ TcpWaitErr

\* --------------------------------------------------------------- udp-relay
\* Application::new, lines 169-194.
RelayNew == prog = "udp-relay" /\ UdpNew(R)

\* Application::run, lines 198-208: the first pop.
RelayRun == prog = "udp-relay" /\ FirstOp(R, "pop")

\* Application::run, lines 211-216.
RelayLog == prog = "udp-relay" /\ LogCheck(R)

\* Application::run, line 228: the destination of the relayed buffer is
\* self.remote, the remote address of the command line (new, line 191).
RelayDest(addr) == "remote"

\* Application::run, lines 225-233: Pop(None, buf) is pushed to the remote.
RelayOnPop ==
    /\ prog = "udp-relay" /\ AtWait(R)
    /\ \E r \in Completable(qtokens[R], ops[R]), len \in Lens :
          /\ r.e.op = "pop"
          /\ nbytes[R] + len <= MaxBytes
          /\ nbytes' = Upd(nbytes, R, CountBytes(nbytes[R], len))
          /\ Handle(R, r, PopRes("none", len, r.e.qd), "push", sockqd[R], len,
                    RelayDest("none"))
    /\ UNCHANGED <<Rest, nqd>>

\* Application::run, lines 235-242.
RelayOnPush ==
    /\ prog = "udp-relay" /\ AtWait(R)
    /\ \E r \in Completable(qtokens[R], ops[R]) :
          /\ r.e.op = "push"
          /\ Handle(R, r, Res("Push", r.e.qd), "pop", sockqd[R], 0, "none")
    /\ UNCHANGED <<Rest, nqd, nbytes>>

\* Application::run, line 243.
RelayOnFailed ==
    /\ prog = "udp-relay" /\ AtWait(R)
    /\ \E r \in Completable(qtokens[R], ops[R]) : Fatal(R, r, "Failed")
    /\ UNCHANGED <<Rest, nqd, nbytes>>

\* Application::run, line 244: the `_` arm, which Pop(Some(addr), buf) takes too.
RelayOnUnexpected ==
    /\ prog = "udp-relay" /\ AtWait(R)
    /\ \E r \in Completable(qtokens[R], ops[R]) :
          \/ \E k \in Spurious : Fatal(R, r, k)
          \/ \E len \in Lens :
                /\ r.e.op = "pop"
                /\ now' = now
                /\ result' = Upd(result, R, PopRes("peer", len, r.e.qd))
                /\ ops' = Upd(ops, R, ops[R] \ {r.e})
                /\ qtokens' = Upd(qtokens, R, swap_remove(qtokens[R], r.i))
                /\ PanicMain
    /\ UNCHANGED <<Rest, nqd, nbytes>>

NextRelay ==
    \/ RelayNew
    \/ RelayRun
    \/ RelayLog
    \/ RelayOnPop
    \/ RelayOnPush
    \/ RelayOnFailed
    \/ RelayOnUnexpected

\* ------------------------------------------------- multi-threaded binaries
\* main, lines 220-227 of udp-echo2.rs: thread::spawn of the next worker,
\* which builds its own LibOS and Application.
MainSpawn ==
    /\ prog \in MTProgs /\ proc = "running" /\ main_pc = "spawn"
    /\ nspawned < args.cores
    /\ pc' = Upd(pc, nspawned, "new")
    /\ nspawned' = nspawned + 1
    /\ UNCHANGED <<prog, proc, args, now, qtokens, ops, bound, nqd, result, latency_vars,
                   main_pc, sockqd, start_at, last_log, nbytes, report>>

\* main, line 229: the pool is complete and main turns to the joins.
MainJoin ==
    /\ prog \in MTProgs /\ proc = "running" /\ main_pc = "spawn"
    /\ nspawned = args.cores
    /\ main_pc' = "join"
    /\ UNCHANGED <<prog, proc, args, now, pc, qtokens, ops, bound, nqd, result,
                   latency_vars, nspawned, sockqd, start_at, last_log, nbytes, report>>

\* main, lines 229-231: handle.join().unwrap() on the first handle.  run
\* never returns, so join returns only once that worker has panicked, with
\* Err, and unwrap panics on the main thread.
MainJoinPanics ==
    /\ prog \in MTProgs /\ proc = "running" /\ main_pc = "join"
    /\ args.cores > 0
    /\ pc[0] = "panicked"
    /\ main_pc' = "panicked"
    /\ proc' = "aborted"
    /\ UNCHANGED <<prog, args, now, pc, qtokens, ops, bound, nqd, result, latency_vars,
                   nspawned, sockqd, start_at, last_log, nbytes, report>>

\* main, lines 229-233: with no worker there is nothing to join.
MainReturns ==
    /\ prog \in MTProgs /\ proc = "running" /\ main_pc = "join"
    /\ args.cores = 0
    /\ main_pc' = "done"
    /\ proc' = "exited"
    /\ UNCHANGED <<prog, args, now, pc, qtokens, ops, bound, nqd, result, latency_vars,
                   nspawned, sockqd, start_at, last_log, nbytes, report>>

NextMain ==
    \/ MainSpawn
    \/ MainJoin
    \/ MainJoinPanics
    \/ MainReturns

\* --------------------------------------------------------------- udp-echo2
\* Application::new, lines 130-152.
EchoNew(t) == prog = "udp-echo2" /\ UdpNew(t)

\* Application::run, lines 156-166: the first pop.
EchoRun(t) == prog = "udp-echo2" /\ FirstOp(t, "pop")

\* Application::run, lines 169-174.
EchoLog(t) == prog = "udp-echo2" /\ LogCheck(t)

\* The source addresses a datagram may carry.
Sources == IF Wide THEN {"peer", "peer2"} ELSE {"peer"}

\* The same destination written as if the server sent to a fixed remote.
EchoDest_fixed(addr) == "remote"

\* Application::run, line 189: the destination of the echo is addr.unwrap(),
\* the source address of the datagram.
EchoDest(addr) == addr

\* Application::run, lines 186-194: the buffer is pushed back to the source
\* address; addr.unwrap() panics when the Pop carries no address.
EchoOnPop(t) ==
    /\ prog = "udp-echo2" /\ AtWait(t)
    /\ \E r \in Completable(qtokens[t], ops[t]), len \in Lens, src \in Sources :
          /\ r.e.op = "pop"
          /\ nbytes[t] + len <= MaxBytes
          /\ nbytes' = Upd(nbytes, t, CountBytes(nbytes[t], len))
          /\ \/ Handle(t, r, PopRes(src, len, r.e.qd), "push", sockqd[t], len,
                       EchoDest(src))
             \/ /\ now' = now
                /\ result' = Upd(result, t, PopRes("none", len, r.e.qd))
                /\ ops' = Upd(ops, t, ops[t] \ {r.e})
                /\ qtokens' = Upd(qtokens, t, swap_remove(qtokens[t], r.i))
                /\ Panic(t)
    /\ UNCHANGED <<Rest, nqd>>

\* Application::run, lines 196-203.
EchoOnPush(t) ==
    /\ prog = "udp-echo2" /\ AtWait(t)
    /\ \E r \in Completable(qtokens[t], ops[t]) :
          /\ r.e.op = "push"
          /\ Handle(t, r, Res("Push", r.e.qd), "pop", sockqd[t], 0, "none")
    /\ UNCHANGED <<Rest, nqd, nbytes>>

\* Application::run, line 204.
EchoOnFailed(t) ==
    /\ prog = "udp-echo2" /\ AtWait(t)
    /\ \E r \in Completable(qtokens[t], ops[t]) : Fatal(t, r, "Failed")
    /\ UNCHANGED <<Rest, nqd, nbytes>>

\* Application::run, line 205.
EchoOnUnexpected(t) ==
    /\ prog = "udp-echo2" /\ AtWait(t)
    /\ \E r \in Completable(qtokens[t], ops[t]), k \in Spurious : Fatal(t, r, k)
    /\ UNCHANGED <<Rest, nqd, nbytes>>

\* Application::run, lines 177-180.
EchoWaitErr(t) ==
    /\ prog = "udp-echo2" /\ AtWait(t)
    /\ WaitFailed(t)
    /\ UNCHANGED <<Rest, nqd, nbytes>>

NextEcho ==
    \E t \in Threads :
        \/ EchoNew(t)
        \/ EchoRun(t)
        \/ EchoLog(t)
        \/ EchoOnPop(t)
        \/ EchoOnPush(t)
        \/ EchoOnFailed(t)
        \/ EchoOnUnexpected(t)
        \/ EchoWaitErr(t)

\* ------------------------------------------- udp-reflector, udp-reflector2
Reflectors == {"udp-reflector", "udp-reflector2"}

\* Application::new, lines 161-188 of udp-reflector.rs.
ReflNew(t) == prog \in Reflectors /\ UdpNew(t)

\* Application::run, lines 191-199: every iteration submits a pop and then
\* calls wait_any2.
ReflPop(t) ==
    /\ prog \in Reflectors /\ proc = "running" /\ pc[t] \in {"run", "loop"}
    /\ \/ /\ Panic(t)
          /\ UNCHANGED <<ops, qtokens>>
       \/ \E qt \in FreeTokens(ops[t]) :
             /\ ops' = Upd(ops, t, Submit(ops[t], qt, "pop", sockqd[t], 0, "none"))
             /\ qtokens' = Upd(qtokens, t, Append(qtokens[t], qt))
             /\ pc' = Upd(pc, t, "wait")
             /\ proc' = proc
    /\ UNCHANGED <<Rest, now, nqd, nbytes, result>>

\* Application::run, lines 201-213: the buffer is pushed back to its source
\* and the push is waited for with libos.wait; remote.unwrap() panics when
\* the Pop carries no address.
ReflOnPop(t) ==
    /\ prog \in Reflectors /\ AtWait(t)
    /\ now' = now
    /\ \E r \in Completable(qtokens[t], ops[t]), len \in Lens :
          /\ r.e.op = "pop"
          /\ qtokens' = Upd(qtokens, t, swap_remove(qtokens[t], r.i))
          /\ \/ \* remote is None
                /\ result' = Upd(result, t, PopRes("none", len, r.e.qd))
                /\ ops' = Upd(ops, t, ops[t] \ {r.e})
                /\ Panic(t)
             \/ \* pushto2 fails
                /\ result' = Upd(result, t, PopRes("peer", len, r.e.qd))
                /\ ops' = Upd(ops, t, ops[t] \ {r.e})
                /\ Panic(t)
             \/ \E qt \in FreeTokens(ops[t] \ {r.e}) :
                   /\ result' = Upd(result, t, PopRes("peer", len, r.e.qd))
                   /\ ops' = Upd(ops, t, Submit(ops[t] \ {r.e}, qt, "push", sockqd[t], len, "peer"))
                   /\ pc' = Upd(pc, t, "wait_push")
                   /\ proc' = proc
    /\ UNCHANGED <<Rest, nqd, nbytes>>

\* Application::run, lines 213-216: libos.wait(qt) returns Ok, whatever the
\* result of the push is, and the loop goes on.
ReflPushWaited(t) ==
    /\ prog \in Reflectors /\ proc = "running" /\ pc[t] = "wait_push"
    /\ \E e \in ops[t], k \in {"Push", "Failed"} :
          /\ e.op = "push"
          /\ ops' = Upd(ops, t, ops[t] \ {e})
          /\ result' = Upd(result, t, SyncRes(k, e.qd))
    /\ pc' = Upd(pc, t, "loop")
    /\ UNCHANGED <<Rest, proc, now, qtokens, nqd, nbytes>>

\* Application::run, line 215: libos.wait(qt) returns Err.
ReflPushWaitErr(t) ==
    /\ prog \in Reflectors /\ proc = "running" /\ pc[t] = "wait_push"
    /\ result' = Upd(result, t, SyncRes("Err", 0))
    /\ Panic(t)
    /\ UNCHANGED <<Rest, now, qtokens, ops, nqd, nbytes>>

\* Application::run, line 218.
ReflOnFailed(t) ==
    /\ prog \in Reflectors /\ AtWait(t)
    /\ \E r \in Completable(qtokens[t], ops[t]) : Fatal(t, r, "Failed")
    /\ UNCHANGED <<Rest, nqd, nbytes>>

\* Application::run, line 219.
ReflOnUnexpected(t) ==
    /\ prog \in Reflectors /\ AtWait(t)
    /\ \E r \in Completable(qtokens[t], ops[t]), k \in Spurious : Fatal(t, r, k)
    /\ UNCHANGED <<Rest, nqd, nbytes>>

\* Application::run, lines 201-204.
ReflWaitErr(t) ==
    /\ prog \in Reflectors /\ AtWait(t)
    /\ WaitFailed(t)
    /\ UNCHANGED <<Rest, nqd, nbytes>>

NextReflector ==
    \E t \in Threads :
        \/ ReflNew(t)
        \/ ReflPop(t)
        \/ ReflOnPop(t)
        \/ ReflPushWaited(t)
        \/ ReflPushWaitErr(t)
        \/ ReflOnFailed(t)
        \/ ReflOnUnexpected(t)
        \/ ReflWaitErr(t)

\* ---------------------------------------------------------------- tcp-dump
\* Application::new, lines 121-146 of tcp-dump.rs: socket, bind, listen.
DumpNew == prog = "tcp-dump" /\ ListenNew

\* The entry of run of a binary that keeps no qtokens: the clocks are read.
RunEntry(t) ==
    /\ proc = "running" /\ pc[t] = "run"
    /\ start_at' = Upd(start_at, t, now)
    /\ last_log' = Upd(last_log, t, now)
    /\ pc' = Upd(pc, t, "loop")
    /\ UNCHANGED <<prog, proc, args, now, qtokens, ops, bound, nqd, result, main_pc,
                   nspawned, sockqd, nbytes, report>>

\* Application::run, lines 150-152.
DumpRun == prog = "tcp-dump" /\ RunEntry(R) /\ UNCHANGED latency_vars

\* Application::run, lines 156-160.
DumpLog == prog = "tcp-dump" /\ LogCheckTo(R, "pop")

\* Application::run, lines 163-166: the pop of the iteration.
DumpPop ==
    /\ prog = "tcp-dump" /\ proc = "running" /\ pc[R] = "pop"
    /\ \/ /\ PanicMain
          /\ ops' = ops
       \/ \E qt \in FreeTokens(ops[R]) :
             /\ ops' = Upd(ops, R, Submit(ops[R], qt, "pop", sockqd[R], 0, "none"))
             /\ pc' = Upd(pc, R, "wait_pop")
             /\ proc' = proc
    /\ UNCHANGED <<Rest, now, qtokens, nqd, nbytes, result>>

\* Application::run, lines 167-170: wait2 returns the Pop and the bytes are
\* counted.
DumpOnPop ==
    /\ prog = "tcp-dump" /\ proc = "running" /\ pc[R] = "wait_pop"
    /\ \E e \in ops[R], len \in Lens, addr \in {"peer", "none"} :
          /\ nbytes[R] + len <= MaxBytes
          /\ nbytes' = Upd(nbytes, R, CountBytes(nbytes[R], len))
          /\ ops' = Upd(ops, R, ops[R] \ {e})
          /\ result' = Upd(result, R, [PopRes(addr, len, e.qd) EXCEPT !.via = "wait"])
    /\ pc' = Upd(pc, R, "loop")
    /\ UNCHANGED <<Rest, proc, now, qtokens, nqd>>

\* Application::run, line 171: wait2 returns Err.
DumpWaitErr ==
    /\ prog = "tcp-dump" /\ proc = "running" /\ pc[R] = "wait_pop"
    /\ result' = Upd(result, R, SyncRes("Err", 0))
    /\ PanicMain
    /\ UNCHANGED <<Rest, now, qtokens, ops, nqd, nbytes>>

\* Application::run, line 172: wait2 returns any result but a Pop, a Failed
\* one included.
DumpOnUnexpected ==
    /\ prog = "tcp-dump" /\ proc = "running" /\ pc[R] = "wait_pop"
    /\ \E e \in ops[R], k \in Kinds :
          /\ wait2_arm("Pop", k) = "unexpected result"
          /\ ops' = Upd(ops, R, ops[R] \ {e})
          /\ result' = Upd(result, R, SyncRes(k, e.qd))
    /\ PanicMain
    /\ UNCHANGED <<Rest, now, qtokens, nqd, nbytes>>

NextDump ==
    \/ DumpNew
    \/ DumpRun
    \/ DumpLog
    \/ DumpPop
    \/ DumpOnPop
    \/ DumpWaitErr
    \/ DumpOnUnexpected

\* -------------------------------------------------------------- udp-pktgen
\* What the steps of udp-pktgen leave alone of the state of the latency
\* harness (its own last_push is kept in the variable of that name).
PktRest == <<sockets, idx, latencies, npackets, out_vars, hist_vars, kv_vars>>

\* Application::new, lines 243-271 of udp-pktgen.rs.
PktNew == prog = "udp-pktgen" /\ UdpNew(R)

\* Application::run, lines 276-280.
PktRun ==
    /\ prog = "udp-pktgen" /\ RunEntry(R)
    /\ last_push' = now
    /\ UNCHANGED PktRest

\* Application::run, lines 282-288.
PktLog == prog = "udp-pktgen" /\ LogCheckTo(R, "gate")

\* The same test written as if the gate were always open.
GateOpen_always(since) == TRUE

\* Application::run, line 291:
\* last_push.elapsed() > Duration::from_micros(self.injection_rate)
GateOpen(since) == now - since > args.injection_rate

\* Application::run, lines 291-295: the rate gate, and the push when it is
\* open.  The durations are compared in ticks of the clock.
PktGate ==
    /\ prog = "udp-pktgen" /\ proc = "running" /\ pc[R] = "gate"
    /\ IF GateOpen(last_push)
       THEN \/ /\ PanicMain
               /\ ops' = ops
            \/ \E qt \in FreeTokens(ops[R]) :
                  /\ nbytes[R] + args.bufsize <= MaxBytes
                  /\ ops' = Upd(ops, R, Submit(ops[R], qt, "push", sockqd[R],
                                               args.bufsize, "remote"))
                  /\ pc' = Upd(pc, R, "wait_push")
                  /\ proc' = proc
       ELSE /\ pc' = Upd(pc, R, "loop")
            /\ UNCHANGED <<proc, ops>>
    /\ UNCHANGED <<Rest, now, qtokens, nqd, nbytes, result>>

\* Application::run, lines 296-302: wait2 returns the Push.
PktOnPush ==
    /\ prog = "udp-pktgen" /\ proc = "running" /\ pc[R] = "wait_push"
    /\ \E e \in ops[R] :
          /\ ops' = Upd(ops, R, ops[R] \ {e})
          /\ result' = Upd(result, R, SyncRes("Push", e.qd))
    /\ nbytes' = Upd(nbytes, R, nbytes[R] + args.bufsize)
    /\ last_push' = now
    /\ pc' = Upd(pc, R, "loop")
    /\ UNCHANGED <<prog, proc, args, now, qtokens, bound, nqd, PktRest, main_pc,
                   nspawned, sockqd, start_at, last_log, report>>

\* Application::run, line 298: wait2 returns Err.
PktWaitErr ==
    /\ prog = "udp-pktgen" /\ proc = "running" /\ pc[R] = "wait_push"
    /\ result' = Upd(result, R, SyncRes("Err", 0))
    /\ PanicMain
    /\ UNCHANGED <<Rest, now, qtokens, ops, nqd, nbytes>>

\* Application::run, line 299: wait2 returns any result but a Push, a Failed
\* one included.
PktOnUnexpected ==
    /\ prog = "udp-pktgen" /\ proc = "running" /\ pc[R] = "wait_push"
    /\ \E e \in ops[R], k \in Kinds :
          /\ wait2_arm("Push", k) = "unexpected result"
          /\ ops' = Upd(ops, R, ops[R] \ {e})
          /\ result' = Upd(result, R, SyncRes(k, e.qd))
    /\ PanicMain
    /\ UNCHANGED <<Rest, now, qtokens, nqd, nbytes>>

NextPktgen ==
    \/ PktNew
    \/ PktRun
    \/ PktLog
    \/ PktGate
    \/ PktOnPush
    \/ PktWaitErr
    \/ PktOnUnexpected

\* ---------------------------------------------------------------- kv-store
\* KVStore::new, lines 163-169: HashMap::default().
EmptyStore == <<>>

\* The keys and values the calls on the KVStore are made with.
Keys == {"k1", "k2"}
Values == {"v1", "v2"}

\* No call yet.  An Option returned is kept as a sequence: <<>> is None and
\* <<x>> is Some(x).
NoCall == [op |-> "none", key |-> "none", value |-> "none", ret |-> <<>>, panic |-> FALSE]

\* KVApp::new_server, lines 231-256: socket, bind, listen.
KvNew == prog = "kv-store" /\ ListenNew

\* KVApp::run_server, lines 309-318: the first accept.
KvRun ==
    /\ prog = "kv-store" /\ proc = "running" /\ pc[R] = "run"
    /\ \/ /\ PanicMain
          /\ UNCHANGED <<ops, qtokens>>
       \/ \E qt \in FreeTokens(ops[R]) :
             /\ ops' = Upd(ops, R, Submit(ops[R], qt, "accept", sockqd[R], 0, "none"))
             /\ qtokens' = Upd(qtokens, R, Append(qtokens[R], qt))
             /\ pc' = Upd(pc, R, "loop")
             /\ proc' = proc
    /\ UNCHANGED <<Rest, now, nqd, nbytes, result>>

\* KVApp::run_server, lines 329-337: the connection is accepted and the
\* first pop is submitted on it.
KvOnAccept ==
    /\ prog = "kv-store" /\ AtWait(R)
    /\ \E r \in Completable(qtokens[R], ops[R]) :
          /\ r.e.op = "accept"
          /\ nqd' = Upd(nqd, R, nqd[R] + 1)
          /\ Handle(R, r, Res("Accept", r.e.qd), "pop", nqd[R] + 1, 0, "none")
    /\ UNCHANGED <<Rest, nbytes>>

\* KVApp::run_server, lines 338-345: the Pop and Push arms are empty (TODO):
\* the token is swap-removed and nothing is submitted.
KvOnTodo ==
    /\ prog = "kv-store" /\ AtWait(R)
    /\ \E r \in Completable(qtokens[R], ops[R]), len \in Lens :
          /\ r.e.op \in {"pop", "push"}
          /\ result' = Upd(result, R, IF r.e.op = "pop" THEN PopRes("none", len, r.e.qd)
                                                      ELSE Res("Push", r.e.qd))
          /\ ops' = Upd(ops, R, ops[R] \ {r.e})
          /\ qtokens' = Upd(qtokens, R, swap_remove(qtokens[R], r.i))
    /\ UNCHANGED <<Rest, proc, pc, now, nqd, nbytes>>

\* KVApp::run_server, line 346.
KvOnFailed ==
    /\ prog = "kv-store" /\ AtWait(R)
    /\ \E r \in Completable(qtokens[R], ops[R]) : Fatal(R, r, "Failed")
    /\ UNCHANGED <<Rest, nqd, nbytes>>

\* KVApp::run_server, line 347: the `_` arm (Connect).
KvOnUnexpected ==
    /\ prog = "kv-store" /\ AtWait(R)
    /\ \E r \in Completable(qtokens[R], ops[R]) : Fatal(R, r, "Connect")
    /\ UNCHANGED <<Rest, nqd, nbytes>>

\* KVApp::run_server, lines 321-324: wait_any2 returns Err.
KvWaitErr ==
    /\ prog = "kv-store" /\ AtWait(R)
    /\ WaitFailed(R)
    /\ UNCHANGED <<Rest, nqd, nbytes>>

NextKvServer ==
    \/ KvNew
    \/ KvRun
    \/ KvOnAccept
    \/ KvOnTodo
    \/ KvOnFailed
    \/ KvOnUnexpected
    \/ KvWaitErr

\* ----------------------------------------------------------------- KVStore
\* kv-store.rs is kept as the repository has it and is not accepted by a
\* compiler; the KVStore is modelled as its statements read.  The outer table
\* is a function from keys to inner tables, which are functions from keys to
\* values.

\* KVStore::get, lines 179-186: the inner table is looked up under the key;
\* the `if temp_hashmap.is_none() { None }` has no return, so control goes on
\* to temp_hashmap.unwrap(), which panics on None; then the key is looked up
\* in the inner table.
get(s, k) ==
    IF k \notin DOMAIN s
    THEN [panic |-> TRUE, ret |-> <<>>]
    ELSE [panic |-> FALSE, ret |-> IF k \in DOMAIN s[k] THEN <<s[k][k]>> ELSE <<>>]

\* KVStore::insert, lines 188-192: a new inner table holding key -> value
\* replaces the entry of the outer table under the key, and the previous
\* entry is returned.
insert_ret(s, k) == IF k \in DOMAIN s THEN <<s[k]>> ELSE <<>>

insert(s, k, v) == [x \in DOMAIN s \cup {k} |-> IF x = k THEN (k :> v) ELSE s[x]]

\* KVStore::remove, lines 194-201: as get up to the unwrap, then
\* hashmap.remove(key) on the local `hashmap` returns the value removed.
remove_ret(s, k) == get(s, k)

\* What remove leaves in self.store.  The inner table is looked up with
\* self.store.get(key), the shared lookup, into a local declared as an owned
\* HashMap<String, String>, and no statement of remove writes to self.store:
\* read as declared, the removal acts on a copy and the store is as before;
\* read as a reference into the store, the key is removed from the inner
\* table, whose entry in the outer table stays.  Both are outcomes.
remove(s, k) ==
    {s, [s EXCEPT ![k] = [x \in (DOMAIN s[k]) \ {k} |-> s[k][x]]]}

\* KVStore::len, lines 203-209: the sum of the lengths of the inner tables.
RECURSIVE SumLens(_, _)
SumLens(s, ks) ==
    IF ks = {} THEN 0
    ELSE LET k == CHOOSE x \in ks : TRUE
         IN  Cardinality(DOMAIN s[k]) + SumLens(s, ks \ {k})

kv_len(s) == SumLens(s, DOMAIN s)

\* KVStore::is_empty, lines 211-214.
is_empty(s) == kv_len(s) = 0

\* What a call on the KVStore leaves alone.
KvRest == <<prog, args, now, qtokens, ops, bound, nqd, result, sockets, idx, last_push,
            latencies, npackets, out_vars, hist_vars, main_pc, nspawned, sockqd,
            start_at, last_log, nbytes, report>>

\* A call returns, or panics on the main thread.
KvCall(op, k, v, ret, panic) ==
    /\ prog = "kv-store" /\ proc = "running"
    /\ kvret' = [op |-> op, key |-> k, value |-> v, ret |-> ret, panic |-> panic]
    /\ IF panic THEN PanicMain ELSE UNCHANGED <<pc, proc>>
    /\ UNCHANGED KvRest

KvInsert ==
    \E k \in Keys, v \in Values :
        /\ KvCall("insert", k, v, insert_ret(store, k), FALSE)
        /\ store' = insert(store, k, v)
        /\ inserted' = [inserted EXCEPT ![k] = v]

KvGet ==
    \E k \in Keys :
        /\ KvCall("get", k, "none", get(store, k).ret, get(store, k).panic)
        /\ UNCHANGED <<store, inserted>>

KvRemove ==
    \E k \in Keys :
        /\ KvCall("remove", k, "none", remove_ret(store, k).ret, remove_ret(store, k).panic)
        /\ IF remove_ret(store, k).panic
           THEN UNCHANGED <<store, inserted>>
           ELSE /\ store' \in remove(store, k)
                /\ inserted' = [inserted EXCEPT ![k] = "removed"]

KvLen ==
    /\ KvCall("len", "none", "none", <<kv_len(store)>>, FALSE)
    /\ UNCHANGED <<store, inserted>>

KvIsEmpty ==
    /\ KvCall("is_empty", "none", "none", <<is_empty(store)>>, FALSE)
    /\ UNCHANGED <<store, inserted>>

NextKV ==
    \/ KvInsert
    \/ KvGet
    \/ KvRemove
    \/ KvLen
    \/ KvIsEmpty

\* ------------------------------------------------------------ specification
AllPrograms ==
    {"udp-latency", "tcp-echo", "udp-relay", "udp-echo2", "udp-reflector", "udp-reflector2",
     "tcp-dump", "udp-pktgen", "kv-store"}

\* The values --bufsize may carry.
BufSizes == {0, 1}

\* The values --injection_rate may carry (set_injection_rate rejects 0).
InjectionRates == {1, 2}

\* The command line of udp-latency as ProgramArguments::new receives it, and
\* the ProgramArguments of the other binaries.
ArgsOf(p) ==
    IF p = "udp-latency"
    THEN [local : [ip : {LocalIp}, port : Ports], flows : 0 .. MaxFlows,
          packets : 0 .. MaxPackets, bufsize : BufSizes, cores : {1},
          injection_rate : {1}]
    ELSE [local : [ip : {LocalIp}, port : {5}], flows : {1}, packets : {1},
          bufsize : {1}, cores : IF p \in MTProgs THEN 0 .. MaxThreads ELSE {1},
          injection_rate : IF p = "udp-pktgen" THEN InjectionRates ELSE {1}]

InitOf(progs) ==
    /\ prog \in progs
    /\ proc = "running"
    /\ args \in ArgsOf(prog)
    /\ now = 0
    /\ pc = [t \in Threads |->
                IF prog \in MTProgs \/ t # 0 THEN "idle"
                ELSE IF prog = "udp-latency" THEN "parse" ELSE "new"]
    /\ qtokens = [t \in Threads |-> <<>>]
    /\ ops = [t \in Threads |-> {}]
    /\ bound = [t \in Threads |-> <<>>]
    /\ nqd = [t \in Threads |-> 0]
    /\ result = [t \in Threads |-> NoResult]
    /\ sockets = <<>>
    /\ idx = 0
    /\ last_push = 0
    /\ latencies = <<>>
    /\ npackets = 0
    /\ histogram = EmptyBag
    /\ file_exists = FALSE
    /\ file_lines = <<>>
    /\ summary = FALSE
    /\ nsubmitted = 0
    /\ nconsumed = 0
    /\ nstats = 0
    /\ nsends = 0
    /\ since_push = <<>>
    /\ gap = <<>>
    /\ sent_at = 0
    /\ sent_qd = 0
    /\ max_pending = 0
    /\ main_pc = IF prog \in MTProgs THEN "spawn" ELSE "app"
    /\ nspawned = 0
    /\ sockqd = [t \in Threads |-> 0]
    /\ start_at = [t \in Threads |-> 0]
    /\ last_log = [t \in Threads |-> 0]
    /\ nbytes = [t \in Threads |-> 0]
    /\ report = [t \in Threads |-> NoReport]
    /\ store = EmptyStore
    /\ kvret = NoCall
    /\ inserted = [k \in Keys |-> "never"]

\* The latency harness.
Init == InitOf({"udp-latency"})

Next ==
    \/ Tick
    \/ NextLatency

Spec == Init /\ [][Next]_vars

\* The latency harness is scheduled and the LibOS completes operations: a
\* step of the harness that can happen eventually does.
FairSpec == Spec /\ WF_vars(NextLatency)

\* Every binary.
InitAll == InitOf(AllPrograms)

NextAll ==
    \/ Tick
    \/ NextLatency
    \/ NextTcpEcho
    \/ NextRelay
    \/ NextMain
    \/ NextEcho
    \/ NextReflector
    \/ NextDump
    \/ NextPktgen
    \/ NextKvServer

SpecAll == InitAll /\ [][NextAll]_vars

\* The KVStore on its own: calls on a store that starts empty.
InitKV == InitOf({"kv-store"})

SpecKV == InitKV /\ [][NextKV]_vars

\* The main thread is scheduled: a spawn or a join that can return does.
FairSpecAll == SpecAll /\ WF_vars(NextMain)

\* The reporter checks of all the binaries that have one.
ReporterChecks ==
    \/ TcpLog
    \/ RelayLog
    \/ DumpLog
    \/ PktLog
    \/ \E t \in Threads : EchoLog(t)

\* The threads are scheduled: main spawns and joins, and a reactor at the top
\* of its loop runs its reporter check.  Completions come from the network
\* and are not forced.
FairSpecReporter == SpecAll /\ WF_vars(NextMain) /\ WF_vars(ReporterChecks)

\* ------------------------------------------------------------------ claims
Latency == prog = "udp-latency"

\* C1: in the latency harness the statistics step is entered at most once,
\* only with exactly `packets` samples collected, and when the run has
\* returned it has run once, latency.txt holds exactly `packets` lines, the
\* histogram holds exactly `packets` values and the summary was printed.
C1_StatsOnceOverTargetSamples ==
    Latency =>
        /\ nstats <= 1
        /\ nstats = 1 => Len(latencies) = args.packets
        /\ file_exists => nstats = 1 /\ Len(file_lines) <= args.packets
        /\ pc[R] = "done" =>
              /\ nstats = 1
              /\ summary
              /\ Len(file_lines) = args.packets
              /\ BagCardinality(histogram) = args.packets
        /\ summary => pc[R] = "done"

C1_Witness ==
    /\ Latency /\ pc[R] = "done" /\ args.packets >= 2
    /\ Len(file_lines) = args.packets
    /\ \E j \in 1 .. Len(latencies) : latencies[j] > 0

\* C2: in the latency harness the pending set is never larger than the number
\* of flows and no flow has more than one operation outstanding.
C2_PendingWithinFlows ==
    Latency =>
        /\ Len(qtokens[R]) <= args.flows
        /\ \A j \in 1 .. Len(sockets) :
              Cardinality({e \in ops[R] : e.qd = sockets[j]}) <= 1
        /\ \A e \in ops[R] : \E j \in 1 .. Len(sockets) : e.qd = sockets[j]

C2_Witness ==
    /\ Latency /\ args.flows = 1 /\ npackets >= 1
    /\ Len(qtokens[R]) = 1 /\ Cardinality(ops[R]) = 1

\* C3 (as claimed): every submitted token is consumed exactly once, and none
\* is still pending when the run has returned after reaching the target.
C3_NoTokenLeftAtExit ==
    Latency =>
        /\ nconsumed <= nsubmitted
        /\ pc[R] = "done" =>
              /\ qtokens[R] = <<>>
              /\ ops[R] = {}
              /\ nconsumed = nsubmitted

\* C4: between any two consecutive send submissions of the latency harness
\* exactly one Push completion and then exactly one Pop completion were
\* consumed, and no send is submitted while an operation is outstanding.
C4_ClosedLoop ==
    Latency =>
        /\ nsends >= 2 => gap = <<"Push", "Pop">>
        /\ nsends = 1 => gap = <<>>
        /\ \A e \in ops[R] : e.op = "push" => since_push = <<>> /\ Cardinality(ops[R]) = 1

C4_Witness ==
    Latency /\ nsends >= 3 /\ gap = <<"Push", "Pop">> /\ args.flows >= 2

\* C5: a step that appends a latency sample appends the clock at the pop
\* completion minus the clock at the latest send submission, and the pop
\* completed on the queue descriptor that latest send was submitted on.
C5_SamplePairsReplyWithRequest ==
    [][Latency /\ Len(latencies') = Len(latencies) + 1 =>
          /\ latencies'[Len(latencies')] = now' - sent_at
          /\ latencies'[Len(latencies')] = now' - last_push
          /\ result'[R].kind = "Pop"
          /\ result'[R].qd = sent_qd]_vars

C5_Witness ==
    /\ Latency /\ args.flows >= 2 /\ Len(latencies) >= 2
    /\ latencies[Len(latencies)] > 0
    /\ result[R].kind = "Pop" /\ result[R].qd = sockets[2]

\* C6 (as claimed): the flows are bound to strictly increasing ports, the
\* first being the port of the configured local address.
C6_PortsStartAtBase ==
    Latency =>
        /\ Len(bound[R]) >= 1 => bound[R][1].addr.port = get_first_port(args)
        /\ \A j \in 2 .. Len(bound[R]) :
              bound[R][j].addr.port > bound[R][j - 1].addr.port

\* C7: once Application::new has returned, the pool holds exactly `flows`
\* endpoints, each bound to the configured local IP, on pairwise distinct
\* ports; while the pool is incomplete (the arguments are not parsed yet or
\* were rejected, new is running or has panicked) no operation has been
\* submitted.
C7_FlowPool ==
    Latency =>
        /\ Len(sockets) <= args.flows
        /\ Len(bound[R]) = Len(sockets)
        /\ \A j \in 1 .. Len(sockets) :
              /\ bound[R][j].qd = sockets[j]
              /\ bound[R][j].addr.ip = args.local.ip
        /\ \A j, k \in 1 .. Len(sockets) :
              j # k => /\ bound[R][j].addr.port # bound[R][k].addr.port
                       /\ sockets[j] # sockets[k]
        /\ pc[R] \in {"run", "loop", "done"} => Len(sockets) = args.flows
        /\ Len(sockets) < args.flows =>
              /\ nsubmitted = 0 /\ qtokens[R] = <<>> /\ ops[R] = {}
              /\ pc[R] \in {"parse", "rejected", "new", "panicked"}

C7_Witness ==
    Latency /\ args.flows >= 2 /\ pc[R] = "loop" /\ Len(sockets) = args.flows

FatalSeen(t) ==
    result[t].via = "wait_any2" /\ result[t].kind \in {"Failed", "Err"}

\* C9: in every binary, once a wait_any2 of some reactor has returned a
\* Failed completion or an error, the process terminates.
C9_FailureEndsProcess ==
    (\E t \in Threads : FatalSeen(t)) ~> (proc # "running")

\* udp-echo2 with two workers: worker 1 has panicked on a failure while the
\* process runs on, main blocked in the join of worker 0, which waits for
\* its next completion.
C9_Witness ==
    /\ prog = "udp-echo2" /\ args.cores = 2
    /\ FatalSeen(1) /\ pc[1] = "panicked"
    /\ proc = "running" /\ main_pc = "join"
    /\ pc[0] = "wait" /\ nbytes[0] > 0 /\ Len(qtokens[0]) = 1

\* C10: a step of the latency harness in which wait_any2 returns an Accept
\* or Connect completion ends the process and appends no sample, leaves the
\* sample counter alone and submits nothing.
C10_UnexpectedIsFatal ==
    [][Latency /\ result'[R].kind \in Spurious /\ result'[R] # result[R] =>
          /\ proc' = "aborted"
          /\ pc'[R] = "panicked"
          /\ latencies' = latencies
          /\ npackets' = npackets
          /\ nsubmitted' = nsubmitted
          /\ ops'[R] \subseteq ops[R]]_vars

C10_Witness ==
    /\ Latency /\ result[R].kind = "Accept" /\ proc = "aborted"
    /\ npackets >= 1

\* C11: in the latency harness, once a call into the LibOS has failed before
\* the statistics step was entered, the process has terminated in a failed
\* state: latency.txt does not exist and holds no line, no histogram entry
\* and no summary were produced, and no step of the harness is enabled.
C11_FailureBeforeTargetAborts ==
    Latency /\ pc[R] = "panicked" /\ nstats = 0 =>
        /\ proc = "aborted"
        /\ ~file_exists /\ file_lines = <<>>
        /\ histogram = EmptyBag /\ ~summary
        /\ ~ENABLED Next

\* A Failed completion arrived after some samples had been taken and before
\* the target.
C11_Witness ==
    /\ Latency /\ pc[R] = "panicked" /\ result[R].kind = "Failed"
    /\ npackets >= 1 /\ npackets < args.packets
    /\ proc = "aborted"

\* C12: in every program a Failed completion is the last thing its reactor
\* handles: the reactor whose latest completion, from wait_any2 or from the
\* blocking wait of a reflector's echo send, is Failed has panicked and does
\* not go round its loop again.
C12_NoFailureSwallowed ==
    \A t \in Threads : result[t].kind = "Failed" => pc[t] = "panicked"

\* A reflector whose echo send failed is waiting for its next datagram.
C12_Witness ==
    /\ prog \in Reflectors /\ proc = "running"
    /\ \E t \in Threads :
          /\ result[t] = SyncRes("Failed", sockqd[t])
          /\ pc[t] = "wait" /\ Len(qtokens[t]) = 1

\* C13: in a multi-threaded binary run with two or more workers, once the
\* wait_any2 of any worker has returned a Failed completion or an error, the
\* whole process terminates.
C13_WorkerFailureEndsRun ==
    (/\ prog \in MTProgs /\ args.cores >= 2
     /\ \E t \in Threads : FatalSeen(t) /\ pc[t] = "panicked")
        ~> (proc # "running")

\* A reflector with two workers: the second worker has failed, main has
\* reached the join of the first one, which is alive, and the process runs.
C13_Witness ==
    /\ prog \in Reflectors /\ args.cores = 2
    /\ FatalSeen(1) /\ pc[1] = "panicked"
    /\ main_pc = "join" /\ pc[0] = "wait"
    /\ proc = "running"

\* What a worker's reactor owns: its position, its LibOS (descriptors,
\* binds, outstanding operations) and its Application with the locals of run.
WorkerState(t) ==
    <<pc[t], qtokens[t], ops[t], nqd[t], bound[t], sockqd[t], nbytes[t], result[t],
      start_at[t], last_log[t], report[t]>>

\* A step that changes the state of at most one worker, keeps in every
\* pending set only tokens of operations that worker has outstanding on its
\* own socket, and hands a worker a completion from wait_any2 only for an
\* operation it had outstanding itself.
IsolatedStep ==
    /\ \A t, u \in Threads :
          t # u /\ WorkerState(t)' # WorkerState(t) =>
              WorkerState(u)' = WorkerState(u)
    /\ \A t \in Threads : \A i \in 1 .. Len(qtokens'[t]) :
          \E e \in ops'[t] : e.qt = qtokens'[t][i] /\ e.qd = sockqd'[t]
    /\ \A t \in Threads :
          (/\ result'[t] # result[t]
           /\ result'[t].via = "wait_any2"
           /\ result'[t].kind # "Err") =>
              \E e \in ops[t] \ ops'[t] :
                  /\ e.qd = result'[t].qd
                  /\ \E i \in 1 .. Len(qtokens[t]) : qtokens[t][i] = e.qt

\* C14: in the multi-threaded binaries the workers share no mutable state:
\* every step changes the state of at most one worker (pending set,
\* endpoint, byte counter and the rest), a pending set holds only tokens its
\* worker submitted, and a completion is consumed by the worker that
\* submitted the operation.
C14_WorkersIsolated == [][(prog \in MTProgs) => IsolatedStep]_vars

\* udp-echo2 with two workers that have both echoed data and both have an
\* operation outstanding.
C14_Witness ==
    /\ prog = "udp-echo2" /\ args.cores = 2 /\ proc = "running"
    /\ \A t \in {0, 1} :
          /\ nbytes[t] > 0 /\ Len(qtokens[t]) = 1 /\ pc[t] = "wait"
          /\ result[t].kind = "Push"

\* C15: a run of the latency harness whose command line carries bufsize = 0,
\* flows = 0 or packets = 0 never gets past the parsing of its arguments: the
\* LibOS is never built, no socket is created or bound and no operation is
\* submitted, and once parsed the run has failed.
C15_ZeroRejectedEarly ==
    Latency /\ (args.bufsize = 0 \/ args.flows = 0 \/ args.packets = 0) =>
        /\ pc[R] \in {"parse", "rejected"}
        /\ pc[R] = "rejected" <=> proc = "failed"
        /\ proc \in {"running", "failed"}
        /\ nqd[R] = 0 /\ bound[R] = <<>> /\ sockets = <<>>
        /\ ops[R] = {} /\ qtokens[R] = <<>> /\ nsubmitted = 0

\* A run with bufsize = 0 and otherwise valid arguments has been rejected.
C15_Witness ==
    /\ Latency /\ args.bufsize = 0 /\ args.flows > 0 /\ args.packets > 0
    /\ proc = "failed" /\ pc[R] = "rejected"

\* C16: whenever a reactor of the latency harness, of tcp-echo, udp-echo2,
\* udp-relay or of a reflector is about to call wait_any2 its qtokens is not
\* empty and every token in it is the token of an outstanding operation;
\* after a handled completion (the reactor is back at the top of its loop,
\* or a reflector is in the blocking wait of its echo send) an operation is
\* outstanding.
C16_WaitNeverEmpty ==
    \A t \in Threads :
        /\ (AtWait(t) /\ prog # "kv-store") =>
              /\ Len(qtokens[t]) >= 1
              /\ \A i \in 1 .. Len(qtokens[t]) :
                    \E e \in ops[t] : e.qt = qtokens[t][i]
        /\ prog \in {"udp-latency", "tcp-echo", "udp-echo2", "udp-relay"}
               /\ pc[t] = "loop" =>
              Len(qtokens[t]) >= 1 /\ ops[t] # {}
        /\ pc[t] = "wait_push" => ops[t] # {}

\* The tcp-echo server is about to wait again after an echo went round.
C16_Witness ==
    /\ prog = "tcp-echo" /\ AtWait(R)
    /\ result[R].kind = "Push" /\ nbytes[R] > 0
    /\ Len(qtokens[R]) = 1

\* C17: when the harness is scheduled and completions keep arriving, a run
\* of the latency harness in which nothing fails eventually has its target
\* number of samples, has been through the statistics step once, summary
\* printed, and has returned normally.
C17_ReachesTarget ==
    <>(\/ proc \in {"aborted", "failed"}
       \/ /\ proc = "exited" /\ pc[R] = "done"
          /\ npackets = args.packets /\ Len(latencies) = args.packets
          /\ nstats = 1 /\ summary /\ Len(file_lines) = args.packets)

\* A run has returned normally with its target of samples.
C17_Witness ==
    /\ Latency /\ proc = "exited" /\ npackets = args.packets
    /\ args.packets >= 2 /\ nstats = 1 /\ summary

\* The binaries that stream: tcp-echo, udp-echo2, udp-relay, the reflectors,
\* tcp-dump and udp-pktgen.
Streaming == AllPrograms \ {"udp-latency", "kv-store"}

\* C18: a streaming binary never exits normally: its process is running or
\* has ended on a fatal error.
C18_StreamingNeverExits ==
    prog \in Streaming => proc # "exited"

\* A multi-threaded binary started with no worker has returned Ok from main
\* without creating a socket.
C18_Witness ==
    /\ prog \in MTProgs /\ args.cores = 0 /\ proc = "exited"
    /\ \A t \in Threads : pc[t] = "idle" /\ nqd[t] = 0

Reporters == {"tcp-echo", "udp-echo2", "udp-relay", "tcp-dump", "udp-pktgen"}

\* Thread t leaves the top of its loop: the reporter check takes no time and
\* leaves the reactor's operations and byte counter alone; with LOG_INTERVAL
\* or less elapsed since the latest report (or the start) nothing is printed
\* and last_log stays, otherwise the line printed carries the byte counter
\* and the time since the start.
ReporterStep(t) ==
    /\ now' = now
    /\ qtokens'[t] = qtokens[t] /\ ops'[t] = ops[t]
    /\ nbytes'[t] = nbytes[t] /\ result'[t] = result[t]
    /\ start_at'[t] = start_at[t]
    /\ pc'[t] # "panicked"
    /\ IF now - last_log[t] <= LOG_INTERVAL
       THEN report'[t] = report[t] /\ last_log'[t] = last_log[t]
       ELSE /\ report'[t] = [bytes |-> nbytes[t], elapsed |-> now - start_at[t]]
            /\ last_log'[t] = now

\* C20: in every binary with a reporter, each iteration of the loop starts
\* with the reporter check, which does not wait and does nothing when
\* LOG_INTERVAL seconds or less have elapsed; a line is printed only there,
\* more than LOG_INTERVAL after the previous one (or the start); and a
\* completion is only taken after the check of that iteration.
C20_ReporterOncePerIteration ==
    [][(prog \in Reporters) =>
          \A t \in Threads :
              /\ (pc[t] = "loop" /\ pc'[t] # "loop") => ReporterStep(t)
              /\ (report'[t] # report[t]) =>
                    /\ pc[t] = "loop" /\ pc'[t] # "loop"
                    /\ now - last_log[t] > LOG_INTERVAL
              /\ (result'[t] # result[t] \/ nbytes'[t] # nbytes[t]) =>
                    pc[t] \notin {"loop", "run", "new"}]_vars

\* Two reports have been printed by a server that went on echoing.
C20_Witness ==
    /\ prog \in Reporters /\ proc = "running"
    /\ report[R] # NoReport /\ report[R].elapsed > 2 * LOG_INTERVAL
    /\ last_log[R] - start_at[R] > 2 * LOG_INTERVAL
    /\ report[R].bytes > 0

\* The reactors whose loop is the reporter check followed by wait_any2.
WaitAnyReporters == {"tcp-echo", "udp-relay", "udp-echo2"}

\* The reactor of thread t is in its loop and more than LOG_INTERVAL has
\* elapsed since its latest report (or the start).
ReportDue(t) ==
    /\ prog \in WaitAnyReporters /\ proc = "running"
    /\ pc[t] \in {"loop", "wait"}
    /\ now - last_log[t] > LOG_INTERVAL

\* C21: the reporter keeps its cadence whatever the completions do: whenever
\* more than LOG_INTERVAL seconds have elapsed since the latest report of a
\* running reactor, a report is printed (last_log is set anew), even when no
\* outstanding operation completes.
C21_ReportsWithoutCompletions ==
    \A t \in Threads :
        ReportDue(t) ~> (\/ now - last_log[t] <= LOG_INTERVAL
                         \/ proc # "running"
                         \/ pc[t] = "panicked")

\* The tcp-echo server has been blocked in wait_any2 for more than twice
\* LOG_INTERVAL since the start and has printed nothing.
C21_Witness ==
    /\ prog = "tcp-echo" /\ proc = "running" /\ pc[R] = "wait"
    /\ now - start_at[R] > 2 * LOG_INTERVAL
    /\ report[R] = NoReport /\ last_log[R] = start_at[R]
    /\ Len(qtokens[R]) = 1

\* The operations thread t submits and the ones it sees completed in a step.
NewOps(t) == ops'[t] \ ops[t]

DoneOps(t) == ops[t] \ ops'[t]

\* A step of the tcp-echo server: at most one operation is submitted; a send
\* is submitted only in the step that takes a Pop completion, on the
\* connection the Pop completed on and with the buffer it carried; a receive
\* on a connection only in the step that takes the Push completion of that
\* connection, or the Accept completion that opened it; a Pop completion
\* that does not end the process has its send submitted; and no queue
\* descriptor has two operations outstanding.
EchoAlternates ==
    /\ Cardinality(NewOps(R)) <= 1
    /\ \A e \in NewOps(R) :
          \/ /\ e.op = "push" /\ e.dest = "conn"
             /\ result'[R].kind = "Pop" /\ result'[R].qd = e.qd
             /\ e.len = result'[R].len
             /\ \E g \in DoneOps(R) : g.op = "pop" /\ g.qd = e.qd
          \/ /\ e.op = "pop" /\ e.qd # sockqd[R]
             /\ \E g \in DoneOps(R) :
                   \/ g.op = "push" /\ g.qd = e.qd /\ result'[R].kind = "Push"
                   \/ g.op = "accept" /\ e.qd > nqd[R] /\ result'[R].kind = "Accept"
          \/ e.op = "accept" /\ e.qd = sockqd[R] /\ pc[R] = "run"
    /\ (result'[R] # result[R] /\ result'[R].kind = "Pop" /\ proc' = "running") =>
          \E e \in NewOps(R) : e.op = "push"
    /\ \A e, f \in ops'[R] : e.qd = f.qd => e = f

\* C22: in the tcp-echo server every Pop completion has its buffer pushed
\* back, unchanged, on the connection it arrived on, and the next pop on that
\* connection is submitted only when that push has completed: receives and
\* sends alternate on a connection, so no more buffers are echoed than were
\* received.
C22_EchoOnSameConnection ==
    [][(prog = "tcp-echo") => EchoAlternates]_vars

\* The server has echoed a buffer of two bytes and a later one on the
\* accepted connection, and the second echo is outstanding.
C22_Witness ==
    /\ prog = "tcp-echo" /\ proc = "running" /\ nbytes[R] = 3
    /\ result[R].kind = "Pop" /\ result[R].qd # sockqd[R]
    /\ \E e \in ops[R] : e.op = "push" /\ e.qd = result[R].qd /\ e.len = result[R].len

\* A step of the reactor of thread t of a UDP server whose policy sends each
\* datagram to the address `fixed`, or back to its source when fixed is
\* "none": at most one operation is submitted, on the server's socket; a
\* send only in the step that takes a Pop completion, with the buffer of the
\* Pop and to that destination; a receive only at the
\* entry of run or in the step that takes a Push completion; a completion
\* taken by an arm that does not panic has exactly one operation submitted;
\* and one operation is outstanding at most.
DatagramPolicy(t, fixed) ==
    /\ Cardinality(NewOps(t)) <= 1
    /\ \A e \in NewOps(t) :
          /\ e.qd = sockqd[t]
          /\ \/ /\ e.op = "push"
                /\ result'[t].kind = "Pop" /\ e.len = result'[t].len
                /\ e.dest = (IF fixed = "none" THEN result'[t].addr ELSE fixed)
                /\ e.dest # "none"
                /\ \E g \in DoneOps(t) : g.op = "pop"
             \/ /\ e.op = "pop"
                /\ \/ pc[t] = "run"
                   \/ /\ result'[t].kind = "Push"
                      /\ \E g \in DoneOps(t) : g.op = "push"
    /\ (DoneOps(t) # {} /\ pc'[t] # "panicked") => Cardinality(NewOps(t)) = 1
    /\ Cardinality(ops'[t]) <= 1

\* C23: in udp-echo2 every Pop completion has exactly one send submitted,
\* of the same buffer and to the source address of the datagram, and the
\* Push completion of that send has exactly one new pop submitted on the
\* same socket.
C23_EchoToSource ==
    [][(prog = "udp-echo2") => \A t \in Threads : DatagramPolicy(t, "none")]_vars

\* A datagram from the second source is being echoed to that source after
\* an earlier echo went round.
C23_Witness ==
    /\ prog = "udp-echo2" /\ proc = "running" /\ nbytes[0] = 3
    /\ result[0].kind = "Pop" /\ result[0].addr = "peer2"
    /\ \E e \in ops[0] : e.op = "push" /\ e.dest = "peer2" /\ e.len = result[0].len

\* C24 (as claimed): in udp-relay every Pop completion, whichever address it
\* carries, has exactly one send submitted, of the same buffer and to the
\* configured remote address (never to the source of the datagram), and the
\* Push completion of that send has exactly one new pop submitted on the
\* same socket; in particular the step that takes the Pop of a datagram
\* carrying its source address does not stop the relay.
C24_RelayToRemote ==
    [][(prog = "udp-relay") =>
          /\ DatagramPolicy(R, "remote")
          /\ (result'[R] # result[R] /\ result'[R].kind = "Pop"
                 /\ result'[R].addr # "none") => pc'[R] # "panicked"]_vars

\* The relay has relayed one datagram and has then stopped on a Pop that
\* carries the source address of its datagram, with nothing sent for it.
C24_Witness ==
    /\ prog = "udp-relay" /\ proc = "aborted" /\ pc[R] = "panicked"
    /\ result[R].kind = "Pop" /\ result[R].addr = "peer"
    /\ nbytes[R] > 0 /\ ops[R] = {} /\ qtokens[R] = <<>>

\* A step of udp-pktgen: a send is submitted only at the gate, with more
\* than injection_rate elapsed since last_push and nothing outstanding, and
\* carries bufsize bytes to the remote; last_push is the clock at the entry
\* of run or at the latest completed send; the byte counter changes only in
\* the step that takes the Push of a send, by bufsize; and at most one
\* operation is outstanding.
PacedStep ==
    /\ \A e \in NewOps(R) :
          /\ pc[R] = "gate" /\ ops[R] = {}
          /\ now - last_push > args.injection_rate
          /\ e.op = "push" /\ e.qd = sockqd[R]
          /\ e.len = args.bufsize /\ e.dest = "remote"
    /\ Cardinality(ops'[R]) <= 1
    /\ last_push' # last_push =>
          /\ last_push' = now
          /\ \/ pc[R] = "run"
             \/ \E g \in DoneOps(R) : g.op = "push" /\ result'[R].kind = "Push"
    /\ nbytes'[R] # nbytes[R] =>
          /\ nbytes'[R] = nbytes[R] + args.bufsize
          /\ \E g \in DoneOps(R) : g.op = "push" /\ result'[R].kind = "Push"
    /\ (DoneOps(R) # {} /\ pc'[R] # "panicked") =>
          /\ nbytes'[R] = nbytes[R] + args.bufsize
          /\ last_push' = now

\* C25: udp-pktgen submits a send only when more than injection_rate has
\* elapsed since the previous send completed (or since the start), waits for
\* each send before it submits the next, and adds exactly bufsize to the byte
\* counter per completed send.
C25_PacedInjection ==
    [][(prog = "udp-pktgen") => PacedStep]_vars

\* With an injection rate of 2, two sends have completed and a third is
\* outstanding.
C25_Witness ==
    /\ prog = "udp-pktgen" /\ args.injection_rate = 2 /\ proc = "running"
    /\ nbytes[R] = 2 * args.bufsize /\ pc[R] = "wait_push"
    /\ Cardinality(ops[R]) = 1 /\ now - last_push > 2

\* C26 (as claimed): the target get_packets returns for a command line that
\* was accepted is the value of --packets times 10^6; with the default of 1
\* it is 1,000,000.
C26_TargetIsMillions ==
    Latency /\ pc[R] \notin {"parse", "rejected"} =>
        get_packets(args) = args.packets * 1000000

\* A run started with --packets 1, the default: Application::new asks
\* get_packets for the target and is given 10,000.
C26_Witness ==
    /\ Latency /\ pc[R] = "new" /\ args.packets = 1
    /\ get_packets(args) = 10000

\* A step of the latency harness that takes a Push completion: the receive
\* it submits is on the queue descriptor of the send that completed, which
\* is the flow of the latest send; and unless the step panics it submits
\* that receive and nothing else.
PopOnSendingFlow ==
    /\ \A e \in NewOps(R) :
          e.op = "pop" =>
              /\ result'[R].kind = "Push"
              /\ \E g \in DoneOps(R) : g.op = "push" /\ g.qd = e.qd
              /\ e.qd = sent_qd
              /\ e.qd = sockets[idx + 1]
    /\ ((\E g \in DoneOps(R) : g.op = "push") /\ result'[R].kind = "Push"
          /\ pc'[R] # "panicked") =>
          \E e \in NewOps(R) : e.op = "pop" /\ NewOps(R) = {e}

\* C27: in the latency harness the receive submitted on a Push completion is
\* on the flow that issued the send which just completed, whatever the number
\* of flows and whichever flows were drawn.
C27_ReceiveOnSendingFlow ==
    [][Latency => PopOnSendingFlow]_vars

\* With two flows, a receive is outstanding on the second flow, the flow of
\* the latest send, after an earlier round trip.
C27_Witness ==
    /\ Latency /\ args.flows = 2 /\ Len(latencies) >= 1
    /\ result[R].kind = "Push" /\ idx = 1 /\ sent_qd = sockets[2]
    /\ \E e \in ops[R] : e.op = "pop" /\ e.qd = sockets[2]

\* No value occurs twice in the sequence.
NoDup(q) == \A i, j \in 1 .. Len(q) : i # j => q[i] # q[j]

\* C28: with a LibOS that hands out a token value again only when no
\* outstanding operation holds it, the qtokens of every reactor never holds
\* the same token twice: the token of a completion is removed before the
\* handler submits, so every entry is the token of exactly one outstanding
\* operation even when the value of the completed token is handed out again
\* at once.
C28_LedgerTokensDistinct ==
    \A t \in Threads :
        /\ NoDup(qtokens[t])
        /\ \A i \in 1 .. Len(qtokens[t]) :
              Cardinality({e \in ops[t] : e.qt = qtokens[t][i]}) = 1
        /\ \A e, f \in ops[t] : e.qt = f.qt => e = f

\* The latency harness has submitted more operations than there are token
\* values, so a value has been handed out again, and its receive is pending.
C28_Witness ==
    /\ Latency /\ proc = "running" /\ nsubmitted > MaxQTokens
    /\ nconsumed = nsubmitted - 1
    /\ Len(qtokens[R]) = 1
    /\ \E e \in ops[R] : e.op = "pop" /\ e.qt = qtokens[R][1]

\* The tokens of a qtokens vector, with their multiplicities.
TokenBag(q) ==
    [x \in {q[i] : i \in DOMAIN q} |-> Cardinality({i \in DOMAIN q : q[i] = x})]

\* The binaries whose reactor waits with wait_any2 and whose arms are
\* written out (those of the kv-store server are left to do).
WaitAnyProgs == AllPrograms \ {"tcp-dump", "udp-pktgen", "kv-store"}

\* A step of the reactor of thread t: at most one operation completes and at
\* most one is submitted; a return of wait_any2 with a completion removes
\* from qtokens the one entry of the completed token and keeps every other
\* entry, and the arm adds at most the token of the one operation it
\* submits; a return with an error removes nothing; and qtokens changes in
\* no other way than by the push of the token just submitted.
OneAtATime(t) ==
    /\ Cardinality(DoneOps(t)) <= 1
    /\ Cardinality(NewOps(t)) <= 1
    /\ (AtWait(t) /\ DoneOps(t) # {}) =>
          \E g \in DoneOps(t) :
              /\ \E i \in 1 .. Len(qtokens[t]) : qtokens[t][i] = g.qt
              /\ result'[t].via = "wait_any2" /\ result'[t].qd = g.qd
              /\ LET kept == TokenBag(qtokens[t]) (-) SetToBag({g.qt})
                 IN  \/ /\ TokenBag(qtokens'[t]) = kept
                        /\ pc'[t] \in {"panicked", "wait_push"}
                     \/ \E e \in NewOps(t) :
                           /\ TokenBag(qtokens'[t]) = kept (+) SetToBag({e.qt})
                           /\ pc'[t] # "panicked"
    /\ (AtWait(t) /\ DoneOps(t) = {}) => qtokens'[t] = qtokens[t]
    /\ (~AtWait(t) /\ qtokens'[t] # qtokens[t]) =>
          \E e \in NewOps(t) : qtokens'[t] = Append(qtokens[t], e.qt)

\* C29: each return of wait_any2 removes exactly one entry of qtokens, the
\* one of the completed token, every other entry being kept, and exactly one
\* arm runs (one submission at most, or a panic) before the next wait: the
\* completions are handled one at a time, in the order the waits return
\* them.
C29_OneCompletionPerWait ==
    [][(prog \in WaitAnyProgs) => \A t \in Threads : OneAtATime(t)]_vars

\* The latency harness has taken three completions, one per wait, and the
\* send submitted by the arm of the latest one is the only entry of qtokens.
C29_Witness ==
    /\ Latency /\ proc = "running" /\ nconsumed >= 3
    /\ nsubmitted = nconsumed + 1
    /\ result[R].kind = "Pop" /\ Len(qtokens[R]) = 1
    /\ \E e \in ops[R] : e.op = "push" /\ e.qt = qtokens[R][1]

\* The next step of the harness submits a send: the first one, at the entry
\* of run, or the one of the Pop arm.
SendNext ==
    \/ pc[R] = "run"
    \/ AtWait(R) /\ \E e \in ops[R] : e.op = "pop"

\* The send of the next step can go out on flow k (0-based).
CanSendOn(k) ==
    \/ ENABLED (RunStart /\ idx' = k /\ sent_qd' = sockets[k + 1])
    \/ ENABLED (LatOnPop /\ idx' = k /\ sent_qd' = sockets[k + 1])

\* The next step can draw index k for its send.
CanDraw(k) ==
    \/ ENABLED (RunStart /\ idx' = k)
    \/ ENABLED (LatOnPop /\ idx' = k)

\* C30: at every send of the latency harness, the first one included, every
\* flow of the pool can be the one drawn, whatever was drawn before, and the
\* index of the flow in use is always within 0 .. flows - 1.
C30_AnyFlowAtEverySend ==
    (Latency /\ proc = "running") =>
        /\ SendNext => \A k \in 0 .. (args.flows - 1) : CanSendOn(k)
        /\ SendNext => \A k \in (-1) .. MaxFlows : CanDraw(k) => k \in 0 .. (Len(sockets) - 1)
        /\ nsends >= 1 =>
              /\ idx \in 0 .. (Len(sockets) - 1)
              /\ sent_qd = sockets[idx + 1]
        /\ \A e \in ops[R] : e.qd = sockets[idx + 1]

\* With two flows and the second one drawn for the latest send, the reply is
\* awaited and the next send can go out on the first flow.
C30_Witness ==
    /\ Latency /\ args.flows = 2 /\ npackets >= 1 /\ idx = 1
    /\ AtWait(R) /\ (\E e \in ops[R] : e.op = "pop" /\ e.qd = sockets[2])
    /\ CanSendOn(0) /\ CanSendOn(1)

\* C31 (as claimed): the kv-store server never calls wait_any2 with an empty
\* qtokens: after every completion it has handled (Accept, Pop or Push) an
\* operation is outstanding.
C31_KvServerNeverStarved ==
    (prog = "kv-store" /\ AtWait(R)) =>
        /\ Len(qtokens[R]) >= 1
        /\ ops[R] # {}

\* The kv-store server has taken the first Pop of its connection and is back
\* at wait_any2 with nothing pending and nothing outstanding.
C31_Witness ==
    /\ prog = "kv-store" /\ AtWait(R)
    /\ result[R].kind = "Pop" /\ nqd[R] = 2
    /\ qtokens[R] = <<>> /\ ops[R] = {}

\* C32: in every binary, when a thread has panicked in the arm that took a
\* Failed completion, the message of that arm is the one that carries the
\* error ("operation failed: ..."), never the generic "unexpected result".
C32_FailedNamesCause ==
    \A t \in Threads :
        (/\ pc[t] = "panicked"
         /\ result[t].kind = "Failed"
         /\ ArmMessage(prog, result[t]) # "none") =>
            ArmMessage(prog, result[t]) = "operation failed"

\* tcp-dump has counted a first buffer; the wait2 of its next pop returns a
\* Failed result, which the `_` arm takes: the process has aborted with
\* "unexpected result".
C32_Witness ==
    /\ prog = "tcp-dump" /\ proc = "aborted" /\ pc[R] = "panicked"
    /\ nbytes[R] > 0
    /\ result[R].kind = "Failed" /\ result[R].via = "wait"
    /\ ArmMessage(prog, result[R]) = "unexpected result"

\* The echo and relay servers, whose reporter prints the bytes received.
ByteServers == {"tcp-echo", "udp-echo2", "udp-relay"}

\* Thread t takes a Pop completion in the Pop arm of its match.
PopTaken(t) ==
    /\ DoneOps(t) # {}
    /\ result'[t].kind = "Pop"
    /\ wait_any2_arm(prog, result'[t]) = "none"

\* One step as seen from the byte counter of thread t: it starts at 0, a
\* Pop taken adds the length of its buffer, every other step leaves it
\* alone, and a report printed carries the counter and leaves it alone.
CumulativeStep(t) ==
    /\ (pc[t] \in {"idle", "new", "run"}) => nbytes[t] = 0
    /\ nbytes'[t] >= nbytes[t]
    /\ IF PopTaken(t)
       THEN nbytes'[t] = nbytes[t] + result'[t].len
       ELSE nbytes'[t] = nbytes[t]
    /\ (report'[t] # report[t]) =>
          /\ report'[t].bytes = nbytes[t]
          /\ nbytes'[t] = nbytes[t]

\* C33: in tcp-echo, udp-echo2 and udp-relay the byte counter of a reactor
\* starts at 0 and never decreases, grows by the length of the buffer in
\* each step that takes a Pop and in no other step, and a report prints the
\* counter without changing it.
C33_BytesCumulative ==
    [][(prog \in ByteServers) => \A t \in Threads : CumulativeStep(t)]_vars

\* A report with a positive byte count has been printed and the server has
\* received more since: the counter is above the printed value.
C33_Witness ==
    /\ prog \in ByteServers /\ proc = "running"
    /\ report[R] # NoReport /\ report[R].bytes > 0
    /\ nbytes[R] = report[R].bytes + 2
    /\ result[R].kind = "Pop" /\ result[R].len = 2

\* C34: in the latency harness, once new has returned, no step changes the
\* flow pool: the vector of sockets (number, order, descriptors), their
\* bindings and the count of descriptors created stay as they are, and every
\* operation submitted is on a socket of the pool.
C34_FlowPoolReadOnly ==
    [][(Latency /\ pc[R] \notin {"parse", "new"}) =>
          /\ sockets' = sockets
          /\ bound'[R] = bound[R]
          /\ nqd'[R] = nqd[R]
          /\ \A e \in NewOps(R) : \E j \in 1 .. Len(sockets) : sockets[j] = e.qd]_vars

\* A run over two flows has ended after the statistics step, its latest
\* request sent on the second flow, and the pool still holds the two sockets
\* created by new, in order.
C34_Witness ==
    /\ Latency /\ args.flows = 2 /\ pc[R] = "done" /\ proc = "exited"
    /\ npackets >= 2
    /\ sockets = <<1, 2>> /\ sent_qd = 2
    /\ Len(bound[R]) = 2

\* C35: a get of a key returns the value of the latest insert of that key,
\* whatever was inserted under other keys, and a get of a key that was never
\* inserted returns None.
C35_GetReturnsLatestInsert ==
    (kvret.op = "get") =>
        /\ (inserted[kvret.key] \in Values) =>
              ~kvret.panic /\ kvret.ret = <<inserted[kvret.key]>>
        /\ (inserted[kvret.key] = "never") =>
              ~kvret.panic /\ kvret.ret = <<>>

\* k1 is in the store and k2 was never inserted: get(k2) has reached the
\* unwrap of a None and the process has aborted.
C35_Witness ==
    /\ kvret.op = "get" /\ kvret.key = "k2" /\ kvret.panic
    /\ inserted["k2"] = "never" /\ inserted["k1"] = "v2"
    /\ get(store, "k1").ret = <<"v2">>
    /\ proc = "aborted"

\* The keys that hold a value: inserted and not removed since.
Holding == {k \in Keys : inserted[k] \in Values}

\* C36: after every call on the KVStore, len() is the number of keys that
\* hold a value and is_empty() holds exactly when there is none; an insert
\* of a key that holds a value leaves len() as it was; and a get of a key
\* after its remove returns None.
C36_LenCountsKeys ==
    [][/\ kv_len(store') = Cardinality(Holding')
       /\ is_empty(store') <=> (Holding' = {})
       /\ (kvret'.op = "insert" /\ kvret'.key \in Holding) =>
             kv_len(store') = kv_len(store)
       /\ (kvret'.op = "get" /\ inserted[kvret'.key] = "removed") =>
             (~kvret'.panic /\ kvret'.ret = <<>>)]_vars

\* k1 and k2 were inserted and k1 was removed, the removal having acted on a
\* copy of the inner table: get(k1) still returns the value and len() is 2
\* with one key holding a value.
C36_Witness ==
    /\ kvret.op = "get" /\ kvret.key = "k1" /\ ~kvret.panic
    /\ inserted["k1"] = "removed" /\ inserted["k2"] = "v1"
    /\ kvret.ret = <<"v2">>
    /\ kv_len(store) = 2 /\ Cardinality(Holding) = 1
    /\ ~is_empty(store)

\* The accepts outstanding in the LibOS of thread t.
Accepts(o) == {e \in o : e.op = "accept"}

\* One step of the tcp-echo server as seen from its accepts: an accept is
\* submitted only at the entry of run, on the listening socket, with nothing
\* outstanding; an Accept is taken only while no connection was accepted
\* yet; once one was, no accept is outstanding, no further descriptor is
\* created, and every pop and push is on that one connection.
OneAcceptStep ==
    /\ \A e \in Accepts(NewOps(R)) :
          pc[R] = "run" /\ ops[R] = {} /\ e.qd = sockqd[R]
    /\ Cardinality(Accepts(ops'[R])) <= 1
    /\ (DoneOps(R) # {} /\ result'[R].kind = "Accept") =>
          /\ nqd[R] = 1 /\ nqd'[R] = 2
          /\ Accepts(ops'[R]) = {}
    /\ (nqd[R] >= 2) =>
          /\ nqd'[R] = nqd[R]
          /\ Accepts(ops[R]) = {} /\ Accepts(ops'[R]) = {}
          /\ \A e \in ops'[R] : e.qd = nqd[R] /\ e.qd # sockqd[R]

\* C37: the tcp-echo server submits one accept, at the entry of run_server;
\* after the Accept completion no accept is outstanding again, no second
\* Accept is taken, and every later operation is on the one connection.
C37_OneAcceptEver ==
    [][(prog = "tcp-echo") => OneAcceptStep]_vars

\* The server has accepted its connection and echoed three bytes on it in
\* two rounds; it waits for the next pop on that connection with no accept
\* outstanding.
C37_Witness ==
    /\ prog = "tcp-echo" /\ AtWait(R) /\ nqd[R] = 2
    /\ nbytes[R] = 3 /\ result[R].kind = "Push"
    /\ Accepts(ops[R]) = {}
    /\ \E e \in ops[R] : e.op = "pop" /\ e.qd = 2 /\ ops[R] = {e}

\* The streaming reactors built on wait_any2.
StreamingWaitAny ==
    {"tcp-echo", "udp-echo2", "udp-relay", "udp-reflector", "udp-reflector2"}

\* C38: whenever a reactor of tcp-echo, udp-echo2, udp-relay or of a
\* reflector is about to call wait_any2, its qtokens holds one token, the
\* token of the one operation outstanding; and a step that takes a
\* completion and goes on removes that token and leaves one new operation
\* outstanding.
C38_OneTokenAtWait ==
    [][(prog \in StreamingWaitAny) =>
          \A t \in Threads :
              /\ AtWait(t) =>
                    /\ Len(qtokens[t]) = 1
                    /\ ops[t] = {e \in ops[t] : e.qt = qtokens[t][1]}
                    /\ Cardinality(ops[t]) = 1
              /\ (AtWait(t) /\ DoneOps(t) # {} /\ pc'[t] # "panicked") =>
                    /\ DoneOps(t) = ops[t]
                    /\ Cardinality(NewOps(t)) = 1
                    /\ Cardinality(ops'[t]) = 1]_vars

\* udp-relay has relayed two datagrams and waits for the third with the
\* token of its pop as the only entry of qtokens.
C38_Witness ==
    /\ prog = "udp-relay" /\ AtWait(R) /\ nbytes[R] = 3
    /\ result[R].kind = "Push"
    /\ Len(qtokens[R]) = 1
    /\ \E e \in ops[R] : e.op = "pop" /\ e.qt = qtokens[R][1]
====
